---- MODULE Spec2Model ----
(***************************************************************************)
(* Event discovery and connection resilience of solana-moon-scanner:       *)
(*   DEXMonitor       (src/src/core/dex_monitor.py)      specification Spec *)
(*   RPCClient        (src/src/core/rpc_client.py)       SpecRPC            *)
(*   WebSocketManager (src/src/core/websocket_manager.py) SpecWS            *)
(* Every asyncio task is a process whose steps run from one await that     *)
(* really suspends (a network call, a sleep, an observer) to the next.     *)
(***************************************************************************)
EXTENDS Integers, Sequences, FiniteSets, TLC

VARIABLES
    \* ---- DEXMonitor
    running,            \* DEXMonitor.running
    discovered_pairs,   \* DEXMonitor.discovered_pairs: insertion-ordered dict, as the sequence of its values
    seen_signatures,    \* DEXMonitor.seen_signatures
    callbacks,          \* DEXMonitor.callbacks: list of observers
    now,                \* datetime.now(), in units of the model's clock
    poll,               \* the task _start_polling_monitoring
    push,               \* the task _start_websocket_monitoring, inside _handle_log_event
    sweeper,            \* the task _cleanup_old_pairs
    calls,              \* history: <<k, token, signature>> -> number of times callbacks[k] was invoked with that pair
    fetched,            \* history: signature -> number of get_transaction calls made for it
    delivered,          \* history: signature -> length of callbacks when _handle_new_pair returned for its pair
    swept,              \* history: signatures of the pairs the cleanup sweep removed
    dropped,            \* history: signatures whose recognised pair _handle_new_pair dropped (token present)
    sweeps,             \* history: number of sweeps run, modulo 2
    active_monitors,    \* the gauge moon_scanner_active_monitors (utils/metrics.py)
    refused,            \* history: signatures whose recognised pair _parse_transaction refused for its age
    returned,           \* the list a caller holds from its last get_active_pairs() call
    unanswered,         \* history: signatures whose get_transaction raised or gave no result
    \* ---- RPCClient
    rpc_initialized,    \* RPCClient._initialized
    backup_client,      \* RPCClient.backup_client is not None
    rpc,                \* the convenience call in progress, and how it ended
    attempts,           \* history: the requests _make_request sent for this call, in order
    \* ---- WebSocketManager
    ws,                 \* WebSocketManager.ws: "none", an "open" connection, a "closed" one
    ws_running,         \* WebSocketManager.running
    subscriptions,      \* WebSocketManager.subscriptions: id -> subscription
    ws_callbacks,       \* WebSocketManager.callbacks: id -> handler
    subscription_id_counter,
    reconnect_attempts, \* WebSocketManager._reconnect_attempts
    listen,             \* the task running listen()
    reconnects,         \* history: reconnect attempts made by this run of listen()
    acks,               \* history: id -> the id the remote side assigned to that subscription
    unsubscribed,       \* history: the last call of unsubscribe and what it did
    stopped,            \* history: stop() was called, no listen() or subscribe call since
    websocket_connections, \* the gauge moon_scanner_websocket_connections (utils/metrics.py)
    \* ---- the callers of subscribe_logs / subscribe_account, one step per await
    subscribers,        \* caller -> the subscribe call it is in
    orphans,            \* connections that are open and are not WebSocketManager.ws
    \* ---- TokenValidator
    metrics,            \* the TokenMetrics handed to validate(), None before
    validation,         \* the ValidationResult validate() returned for it, None before
    \* ---- DEXMonitor started more than once: the loop tasks of every start()
    pollers,            \* the _start_polling_monitoring tasks, in the order of their creation
    sweepers,           \* the _cleanup_old_pairs tasks, in the order of their creation
    \* ---- MoonScanner
    processed_tokens,   \* MoonScanner.processed_tokens
    handling,           \* announcing task -> the _on_new_pair call it awaits
    metrics_fetched,    \* history: token -> fetch_metrics calls made by _on_new_pair, up to MaxCounted
    alerts_sent,        \* history: token -> _send_alerts calls made by _on_new_pair, up to MaxCounted
    failed_tokens,      \* history: tokens whose processing raised
    skipped_tokens      \* history: tokens for which _on_new_pair returned at once

monVars == <<running, discovered_pairs, seen_signatures, callbacks, now, poll, push,
             sweeper, calls, fetched, delivered, swept, dropped, sweeps, active_monitors,
             refused, returned, unanswered>>

rpcVars == <<rpc_initialized, backup_client, rpc, attempts>>

wsVars == <<ws, ws_running, subscriptions, ws_callbacks, subscription_id_counter,
            reconnect_attempts, listen, reconnects, acks, unsubscribed, stopped,
            websocket_connections>>

callVars == <<subscribers, orphans>>

valVars == <<metrics, validation>>

loopVars == <<pollers, sweepers>>

scanVars == <<processed_tokens, handling, metrics_fetched, alerts_sent, failed_tokens,
              skipped_tokens>>

vars == <<monVars, rpcVars, wsVars, callVars, valVars, loopVars, scanVars>>

\* the three components are checked one at a time: the others stand still
MonOnly == UNCHANGED <<rpcVars, wsVars, callVars, valVars, loopVars, scanVars>>
RPCOnly == UNCHANGED <<monVars, wsVars, callVars, valVars, loopVars, scanVars>>
WSOnly == UNCHANGED <<monVars, rpcVars, callVars, valVars, loopVars, scanVars>>
CallOnly == UNCHANGED <<monVars, rpcVars, valVars, loopVars, scanVars>>
ValOnly == UNCHANGED <<monVars, rpcVars, wsVars, callVars, loopVars, scanVars>>
LoopsOnly == UNCHANGED <<rpcVars, wsVars, callVars, valVars, scanVars>>
ScanOnly == UNCHANGED <<monVars, rpcVars, wsVars, callVars, valVars, loopVars>>

(***************************************************************************)
(* Bounds of the model.                                                    *)
(***************************************************************************)
MaxTime == 4                    \* the clock stops here
MaxSurplusStops == 1            \* stop() is called at most this many times more than start()

(***************************************************************************)
(* Program constants. The clock's unit is 60 minutes, so that the default  *)
(* max_token_age_minutes of 60 is one unit.                                *)
(***************************************************************************)
max_token_age_minutes == 1

Signatures == {"sigA", "sigB"}
Tokens == {"TKN1", "TKN2"}
NoToken == "none"               \* fewer than two token mints among the account keys
Observers == {"ok", "raiser"}   \* two callables: one returns, one raises on every invocation
NoSignature == "none"           \* a push event without a signature

\* _get_program_ids() for monitored_dexs = "jupiter": the ids, by name
ProgramIds == <<"jupiter">>

Times == 0..MaxTime

(***************************************************************************)
(* Python values.                                                          *)
(***************************************************************************)
None == <<>>
Some(x) == <<x>>

Min(a, b) == IF a < b THEN a ELSE b

\* the lists of distinct elements of S
RECURSIVE DistinctSeqs(_)
DistinctSeqs(S) ==
    {<<>>} \cup UNION {{<<x>> \o rest : rest \in DistinctSeqs(S \ {x})} : x \in S}

\* dict[key] += 1 on a history counter
Bump(f, key) ==
    IF key \in DOMAIN f THEN [f EXCEPT ![key] = @ + 1] ELSE f @@ (key :> 1)

(***************************************************************************)
(* TokenPair                                                               *)
(***************************************************************************)
TokenPair(token, created, sig) ==
    [token_address |-> token, created_at |-> created, signature |-> sig]

age_minutes(pair, t) == t - pair.created_at

is_eligible(pair, t, max_age) == age_minutes(pair, t) <= max_age

(***************************************************************************)
(* The dict discovered_pairs: token_address -> TokenPair                   *)
(***************************************************************************)
DictHas(d, key) == \E i \in 1..Len(d) : d[i].token_address = key

\* d[key] = value: a new key goes last, a present key keeps its place
DictSet(d, key, value) ==
    IF DictHas(d, key)
    THEN [i \in 1..Len(d) |-> IF d[i].token_address = key THEN value ELSE d[i]]
    ELSE Append(d, value)

RECURSIVE DictDel(_, _)
DictDel(d, keys) ==
    IF d = <<>> THEN <<>>
    ELSE IF Head(d).token_address \in keys THEN DictDel(Tail(d), keys)
    ELSE <<Head(d)>> \o DictDel(Tail(d), keys)

(***************************************************************************)
(* What the provider answers to getTransaction, as far as the parser reads *)
(* it: meta.err, blockTime (0 or absent are both falsy), the programs that  *)
(* have a pool-creation instruction in it, the first token mint. One       *)
(* failed transaction stands for all of them: the parser reads no further. *)
(***************************************************************************)
Transactions ==
    {[err |-> TRUE, block_time |-> 0, pool_programs |-> {}, token |-> NoToken]}
        \cup [err : {FALSE}, block_time : Times, pool_programs : SUBSET {"jupiter"},
              token : Tokens \cup {NoToken}]

\* rpc_client.get_transaction: raises, answers without "result", or answers
TxAnswers == {[kind |-> "raise"], [kind |-> "noresult"]}
                 \cup {[kind |-> "result", tx |-> tx] : tx \in Transactions}

\* rpc_client.get_signatures_for_address: raises, or a list of (distinct) signatures
SigAnswers == {[kind |-> "raise"]}
                  \cup {[kind |-> "result", sigs |-> s] : s \in DistinctSeqs(Signatures)}

\* _is_pool_creation_instruction, over the instructions of the transaction
HasPoolCreation(tx, program_id) == program_id \in tx.pool_programs

\* _extract_pair_info
ExtractPairInfo(tx, signature, created_at) ==
    IF tx.token = NoToken THEN None
    ELSE Some(TokenPair(tx.token, created_at, signature))

\* "if age_minutes > self.config.max_token_age_minutes: return None" (_parse_transaction)
ExceedsMaxAge_never(created_at, t) == FALSE
ExceedsMaxAge(created_at, t) == t - created_at > max_token_age_minutes

\* "created_at" of _parse_transaction: the block time, or now when there is none
CreatedAt(tx, t) == IF tx.block_time = 0 THEN t ELSE tx.block_time

\* _parse_transaction
ParseTransaction(tx, program_id, signature, t) ==
    IF tx.err THEN None
    ELSE LET created_at == CreatedAt(tx, t)
         IN IF ExceedsMaxAge(created_at, t) THEN None
            ELSE IF HasPoolCreation(tx, program_id)
                 THEN ExtractPairInfo(tx, signature, created_at)
                 ELSE None

\* the transaction records the creation of a pool of one of the programs and the pair
\* it would give is refused for its age alone
RefusedForAge(tx, programs, signature, t) ==
    /\ ~tx.err
    /\ t - CreatedAt(tx, t) > max_token_age_minutes
    /\ \E n \in 1..Len(programs) : HasPoolCreation(tx, programs[n])
    /\ ExtractPairInfo(tx, signature, CreatedAt(tx, t)) # None

\* the loop of _handle_log_event over _get_program_ids(): the first program that parses
RECURSIVE ParseAny(_, _, _, _)
ParseAny(tx, programs, signature, t) ==
    IF programs = <<>> THEN None
    ELSE LET pair == ParseTransaction(tx, Head(programs), signature, t)
         IN IF pair # None THEN pair ELSE ParseAny(tx, Tail(programs), signature, t)

(***************************************************************************)
(* DEXMonitor: the dedup and lifecycle decisions                           *)
(***************************************************************************)
\* "signature in self.seen_signatures" (_scan_program, _handle_log_event)
AlreadySeen_never(signature, seen) == FALSE
AlreadySeen_unless_unanswered(signature, seen) == signature \in seen \ unanswered
AlreadySeen(signature, seen) == signature \in seen

\* "pair.token_address in self.discovered_pairs" (_handle_new_pair)
AlreadyDiscovered_never(store, pair) == FALSE
AlreadyDiscovered_only_active(store, pair) ==
    \E i \in 1..Len(store) :
       /\ store[i].token_address = pair.token_address
       /\ is_eligible(store[i], now, max_token_age_minutes)
AlreadyDiscovered(store, pair) == DictHas(store, pair.token_address)

\* the try/except around "await callback(pair)": what the loop over the callbacks
\* does when the observer has returned or raised
CallbackOutcome_unguarded(observer) == IF observer = "raiser" THEN "propagate" ELSE "next"
CallbackOutcome(observer) == "next"

\* the keys _cleanup_old_pairs deletes at time t
OldPairs_from_max_age(store, t) ==
    {store[i].token_address : i \in {j \in 1..Len(store) :
        store[j].created_at < t - max_token_age_minutes}}
OldPairs(store, t) ==
    LET cutoff == t - max_token_age_minutes * 2
    IN {store[i].token_address : i \in {j \in 1..Len(store) : store[j].created_at < cutoff}}

\* get_active_pairs() called at time t
get_active_pairs_unfiltered(store, t) == store
get_active_pairs(store, t) ==
    SelectSeq(store, LAMBDA pair : is_eligible(pair, t, max_token_age_minutes))

(***************************************************************************)
(* The tasks                                                               *)
(***************************************************************************)
\* the locals of a task: the program scanned, the list `signatures` and the position of
\* the loop in it, the signature and the pair in hand, the position in the callbacks;
\* error: a provider call of this scan cycle has raised
Task(pc) ==
    [pc |-> pc, prog |-> 0, sigs |-> <<>>, i |-> 0, sig |-> NoSignature, pair |-> None,
     k |-> 0, error |-> FALSE]

\* the for loop of _scan_program skips the signatures already seen: the first position
\* from i on that holds an unseen one, 0 when the list is done
RECURSIVE FirstUnseen(_, _, _)
FirstUnseen(sigs, i, seen) ==
    IF i > Len(sigs) THEN 0
    ELSE IF AlreadySeen(sigs[i], seen) THEN FirstUnseen(sigs, i + 1, seen)
    ELSE i

\* _scan_dexs goes on to the next program id, or the cycle ends in the sleep
PollNextProgram(prog) ==
    IF prog < Len(ProgramIds) THEN [Task("get_sigs") EXCEPT !.prog = prog + 1]
    ELSE Task("sleep")

\* The for loop of _scan_program, from position i of the list to its next await: the
\* first unseen signature is added to the seen set and its transaction requested.
PollContinue(sigs, i) ==
    LET j == FirstUnseen(sigs, i, seen_signatures)
    IN IF j = 0
       THEN /\ poll' = PollNextProgram(poll.prog)
            /\ UNCHANGED <<seen_signatures, fetched>>
       ELSE /\ seen_signatures' = seen_signatures \cup {sigs[j]}
            /\ fetched' = Bump(fetched, sigs[j])
            /\ poll' = [Task("get_tx") EXCEPT !.prog = poll.prog, !.sigs = sigs, !.i = j,
                                              !.sig = sigs[j]]

\* an exception inside _scan_program is caught by its except clause: the scan of this
\* program ends
PollAbort_ends_loop ==
    /\ poll' = [Task("done") EXCEPT !.error = TRUE]
    /\ UNCHANGED <<seen_signatures, fetched>>
PollAbort ==
    /\ poll' = [PollNextProgram(poll.prog) EXCEPT !.error = TRUE]
    /\ UNCHANGED <<seen_signatures, fetched>>

\* _handle_log_event returns (or its except clause has caught): back in listen()
PushReturn == push' = Task("wait")

Put(f, key, value) == [x \in DOMAIN f \cup {key} |-> IF x = key THEN value ELSE f[x]]

CallKey(k, pair) == <<k, pair.token_address, pair.signature>>

\* the task of a path awaits the first observer, or the next one
PollNotifying(pair) ==
    /\ poll' = [poll EXCEPT !.pc = "notify", !.pair = Some(pair), !.k = 1]
    /\ UNCHANGED <<seen_signatures, fetched>>

PollStay(task) == poll' = task /\ UNCHANGED <<seen_signatures, fetched>>

PushNotifying(pair) == push' = [push EXCEPT !.pc = "notify", !.pair = Some(pair), !.k = 1]

PushStay(task) == push' = task

\* what the caller of _handle_new_pair does on each path ("poll": _scan_program,
\* "push": _handle_log_event): when it returns, when it awaits an observer, when a
\* BaseException leaves it
TaskContinue(path) ==
    IF path = "poll" THEN PollContinue(poll.sigs, poll.i + 1) ELSE PushReturn

TaskNotifying(path, pair) ==
    IF path = "poll" THEN PollNotifying(pair) ELSE PushNotifying(pair)

TaskStay(path, task) ==
    IF path = "poll" THEN PollStay(task) ELSE PushStay(task)

TaskAbort(path) ==
    IF path = "poll" THEN PollAbort ELSE PushReturn

(***************************************************************************)
(* _handle_new_pair(pair), called on `path`, up to its first await.        *)
(***************************************************************************)
HandleNewPair(found, path) ==
    IF found = None
    THEN /\ TaskContinue(path)
         /\ UNCHANGED <<discovered_pairs, calls, delivered, dropped>>
    ELSE LET pair == found[1]
         IN IF AlreadyDiscovered(discovered_pairs, pair)
            THEN /\ TaskContinue(path)
                 /\ dropped' = dropped \cup {pair.signature}
                 /\ UNCHANGED <<discovered_pairs, calls, delivered>>
            ELSE /\ discovered_pairs' = DictSet(discovered_pairs, pair.token_address, pair)
                 /\ UNCHANGED dropped
                 /\ IF callbacks = <<>>
                    THEN /\ delivered' = Put(delivered, pair.signature, 0)
                         /\ TaskContinue(path)
                         /\ UNCHANGED calls
                    ELSE /\ calls' = Bump(calls, CallKey(1, pair))
                         /\ TaskNotifying(path, pair)
                         /\ UNCHANGED delivered

(***************************************************************************)
(* The observer awaited by task `task` has returned or raised: the loop    *)
(* invokes the next one of the list as it is now, or _handle_new_pair      *)
(* returns.                                                                *)
(***************************************************************************)
NotifyStep(task, path) ==
    LET pair == task.pair[1]
    IN IF CallbackOutcome(callbacks[task.k]) = "next"
       THEN IF task.k < Len(callbacks)
            THEN /\ calls' = Bump(calls, CallKey(task.k + 1, pair))
                 /\ TaskStay(path, [task EXCEPT !.k = task.k + 1])
                 /\ UNCHANGED delivered
            ELSE /\ delivered' = Put(delivered, pair.signature, Len(callbacks))
                 /\ TaskContinue(path)
                 /\ UNCHANGED calls
       ELSE /\ TaskAbort(path)
            /\ UNCHANGED <<calls, delivered>>

(***************************************************************************)
(* DEXMonitor: the operations                                              *)
(***************************************************************************)
InitMon ==
    /\ running = FALSE
    /\ discovered_pairs = <<>>
    /\ seen_signatures = {}
    /\ callbacks = <<>>
    /\ now = 0
    /\ poll = Task("off")
    /\ push = Task("off")
    /\ sweeper = "off"
    /\ calls = <<>>
    /\ fetched = <<>>
    /\ delivered = <<>>
    /\ swept = {}
    /\ dropped = {}
    /\ sweeps = 0
    /\ active_monitors = 0
    /\ refused = {}
    /\ returned = <<>>
    /\ unanswered = {}

\* register_callback(callback). The program registers its observers before start()
\* (scanner.py, MoonScanner.start), each callable once.
RegisterCallback ==
    /\ MonOnly
    /\ UNCHANGED <<active_monitors, refused, returned, unanswered>>
    /\ ~running
    /\ poll.pc = "off"
    /\ \E observer \in Observers \ {callbacks[k] : k \in 1..Len(callbacks)} :
          callbacks' = Append(callbacks, observer)
    /\ UNCHANGED <<running, discovered_pairs, seen_signatures, now, poll, push, sweeper,
                   calls, fetched, delivered, swept, dropped, sweeps>>

\* start(): the three tasks are created (a monitor that has not been started before)
Start ==
    /\ MonOnly
    /\ UNCHANGED <<refused, returned, unanswered>>
    /\ ~running
    /\ poll.pc = "off"
    /\ running' = TRUE
    /\ active_monitors' = active_monitors + 1
    /\ push' = Task("wait")
    /\ poll' = Task("created")
    /\ sweeper' = "sleep"
    /\ UNCHANGED <<discovered_pairs, seen_signatures, callbacks, now, calls, fetched,
                   delivered, swept, dropped, sweeps>>

\* the clock advances
Tick ==
    /\ MonOnly
    /\ UNCHANGED <<active_monitors, refused, returned, unanswered>>
    /\ now < MaxTime
    /\ now' = now + 1
    /\ UNCHANGED <<running, discovered_pairs, seen_signatures, callbacks, poll, push,
                   sweeper, calls, fetched, delivered, swept, dropped, sweeps>>

\* _start_polling_monitoring: the task begins, or its sleep is over; the loop condition,
\* then _scan_dexs up to its first await
PollCycle ==
    /\ MonOnly
    /\ UNCHANGED <<active_monitors, refused, returned, unanswered>>
    /\ poll.pc \in {"created", "sleep"}
    /\ poll' = IF running THEN [Task("get_sigs") EXCEPT !.prog = 1] ELSE Task("done")
    /\ UNCHANGED <<running, discovered_pairs, seen_signatures, callbacks, now, push,
                   sweeper, calls, fetched, delivered, swept, dropped, sweeps>>

\* _scan_program: get_signatures_for_address has answered
PollSignatures ==
    /\ MonOnly
    /\ UNCHANGED <<active_monitors, refused, returned, unanswered>>
    /\ poll.pc = "get_sigs"
    /\ \E answer \in SigAnswers :
          IF answer.kind = "raise" THEN PollAbort ELSE PollContinue(answer.sigs, 1)
    /\ UNCHANGED <<running, discovered_pairs, callbacks, now, push, sweeper, calls,
                   delivered, swept, dropped, sweeps>>

\* _scan_program: get_transaction has answered
PollTransaction ==
    /\ MonOnly
    /\ UNCHANGED <<active_monitors, returned>>
    /\ poll.pc = "get_tx"
    /\ \E answer \in TxAnswers :
          CASE answer.kind = "raise" ->
                  /\ PollAbort
                  /\ unanswered' = unanswered \cup {poll.sig}
                  /\ UNCHANGED <<discovered_pairs, calls, delivered, dropped, refused>>
            [] answer.kind = "noresult" ->
                  /\ PollContinue(poll.sigs, poll.i + 1)
                  /\ unanswered' = unanswered \cup {poll.sig}
                  /\ UNCHANGED <<discovered_pairs, calls, delivered, dropped, refused>>
            [] OTHER ->
                  /\ UNCHANGED unanswered
                  /\ HandleNewPair(
                         ParseTransaction(answer.tx, ProgramIds[poll.prog], poll.sig, now),
                         "poll")
                  /\ refused' = IF RefusedForAge(answer.tx, <<ProgramIds[poll.prog]>>,
                                                 poll.sig, now)
                                THEN refused \cup {poll.sig} ELSE refused
    /\ UNCHANGED <<running, callbacks, now, push, sweeper, swept, sweeps>>

\* _handle_new_pair on the polling path: the awaited observer is done
PollNotify ==
    /\ MonOnly
    /\ UNCHANGED <<active_monitors, refused, returned, unanswered>>
    /\ poll.pc = "notify"
    /\ NotifyStep(poll, "poll")
    /\ UNCHANGED <<running, discovered_pairs, callbacks, now, push, sweeper, swept, dropped, sweeps>>

\* listen() hands a log notification to _handle_log_event (stop() closes the connection:
\* no notification is taken to arrive after it)
PushEvent ==
    /\ MonOnly
    /\ UNCHANGED <<active_monitors, refused, returned, unanswered>>
    /\ push.pc = "wait"
    /\ running
    /\ \E signature \in Signatures \cup {NoSignature} :
          IF signature = NoSignature \/ AlreadySeen(signature, seen_signatures)
          THEN UNCHANGED <<push, seen_signatures, fetched>>
          ELSE /\ seen_signatures' = seen_signatures \cup {signature}
               /\ fetched' = Bump(fetched, signature)
               /\ push' = [Task("get_tx") EXCEPT !.sig = signature]
    /\ UNCHANGED <<running, discovered_pairs, callbacks, now, poll, sweeper, calls,
                   delivered, swept, dropped, sweeps>>

\* _handle_log_event: get_transaction has answered
PushTransaction ==
    /\ MonOnly
    /\ UNCHANGED <<active_monitors, returned>>
    /\ push.pc = "get_tx"
    /\ \E answer \in TxAnswers :
          CASE answer.kind \in {"raise", "noresult"} ->
                  /\ PushReturn
                  /\ unanswered' = unanswered \cup {push.sig}
                  /\ UNCHANGED <<discovered_pairs, calls, delivered, dropped, refused>>
            [] OTHER ->
                  /\ UNCHANGED unanswered
                  /\ HandleNewPair(ParseAny(answer.tx, ProgramIds, push.sig, now), "push")
                  /\ refused' = IF RefusedForAge(answer.tx, ProgramIds, push.sig, now)
                                THEN refused \cup {push.sig} ELSE refused
    /\ UNCHANGED <<running, seen_signatures, callbacks, now, poll, sweeper, fetched,
                   swept, sweeps>>

\* _handle_new_pair on the push path: the awaited observer is done
PushNotify ==
    /\ MonOnly
    /\ UNCHANGED <<active_monitors, refused, returned, unanswered>>
    /\ push.pc = "notify"
    /\ NotifyStep(push, "push")
    /\ UNCHANGED <<running, discovered_pairs, seen_signatures, callbacks, now, poll,
                   sweeper, fetched, swept, dropped, sweeps>>

\* the seen set after a sweep that removed the pairs of the signatures `old`: the sweep
\* deletes from discovered_pairs only
SeenAfterSweep_evicts(seen, old) == seen \ old
SeenAfterSweep(seen, old) == seen

\* _cleanup_old_pairs: the sleep is over, one sweep, then the loop condition
CleanupSweep ==
    /\ MonOnly
    /\ UNCHANGED <<active_monitors, refused, returned, unanswered>>
    /\ sweeper = "sleep"
    /\ LET old_pairs == OldPairs(discovered_pairs, now)
       IN /\ discovered_pairs' = DictDel(discovered_pairs, old_pairs)
          /\ swept' = swept \cup {discovered_pairs[i].signature :
                                     i \in {j \in 1..Len(discovered_pairs) :
                                               discovered_pairs[j].token_address \in old_pairs}}
    /\ seen_signatures' = SeenAfterSweep(seen_signatures, swept' \ swept)
    /\ sweeps' = (sweeps + 1) % 2
    /\ sweeper' = IF running THEN "sleep" ELSE "done"
    /\ UNCHANGED <<running, callbacks, now, poll, push, calls, fetched, delivered, dropped>>

MonNext ==
    \/ RegisterCallback
    \/ Start
    \/ Tick
    \/ PollCycle
    \/ PollSignatures
    \/ PollTransaction
    \/ PollNotify
    \/ PushEvent
    \/ PushTransaction
    \/ PushNotify
    \/ CleanupSweep

(***************************************************************************)
(* RPCClient                                                               *)
(***************************************************************************)
\* the convenience calls; all but get_transaction parse an address first
Methods == {"getAccountInfo", "getTokenSupply", "getSignaturesForAddress",
            "getTransaction", "getTokenLargestAccounts"}
ParsesAddress(method) == method # "getTransaction"

\* how one request to an endpoint ends: an answer, aiohttp.ClientError or
\* asyncio.TimeoutError ("retryable"), any other exception ("other")
RequestOutcomes == {"ok", "retryable", "other"}

stop_after_attempt == 3

\* the @retry decorator of _make_request: is a failed attempt followed by another one
ShouldRetry_two_attempts(outcome, attempt) == outcome = "retryable" /\ attempt < 2
ShouldRetry_any_exception(outcome, attempt) == outcome # "ok" /\ attempt < stop_after_attempt
ShouldRetry(outcome, attempt) == outcome = "retryable" /\ attempt < stop_after_attempt

\* what _make_request raises when an attempt has failed and no other follows: tenacity's
\* RetryError (reraise is not set) when the retries are used up, else the exception
RaisedBy(outcome) == IF outcome = "retryable" THEN "RetryError" ELSE "OtherError"

\* "except Exception ... if self.backup_client": does the wrapper go to the backup
\* when the primary's _make_request has raised `error`
FailsOver(error, backup) == backup

NoCall == [pc |-> "idle", method |-> "", endpoint |-> "", attempt |-> 0,
           status |-> "none", source |-> "", error |-> ""]

InitRPC ==
    /\ rpc_initialized = FALSE
    /\ backup_client = FALSE
    /\ rpc = NoCall
    /\ attempts = <<>>

\* initialize(): the primary client, and the backup client when its url is configured
RPCInitialize ==
    /\ RPCOnly
    /\ ~rpc_initialized
    /\ rpc_initialized' = TRUE
    /\ backup_client' \in BOOLEAN
    /\ UNCHANGED <<rpc, attempts>>

Raised(method, error, source) ==
    [pc |-> "done", method |-> method, endpoint |-> "", attempt |-> 0,
     status |-> "raised", source |-> source, error |-> error]

Returned(method, source) ==
    [pc |-> "done", method |-> method, endpoint |-> "", attempt |-> 0,
     status |-> "returned", source |-> source, error |-> ""]

Requesting(method, endpoint, attempt) ==
    [pc |-> "request", method |-> method, endpoint |-> endpoint, attempt |-> attempt,
     status |-> "none", source |-> "", error |-> ""]

\* A convenience call begins (it runs initialize() first on a client that is not
\* initialized, modelled by RPCInitialize). An address that Pubkey.from_string rejects
\* raises inside the try, and again in the except clause's backup branch: no request
\* is sent.
RPCCall ==
    /\ RPCOnly
    /\ rpc_initialized
    /\ rpc.pc \in {"idle", "done"}
    /\ attempts' = <<>>
    /\ \E method \in Methods, valid \in BOOLEAN :
          rpc' = IF ParsesAddress(method) /\ ~valid
                 THEN Raised(method, "ValueError", "")
                 ELSE Requesting(method, "primary", 1)
    /\ UNCHANGED <<rpc_initialized, backup_client>>

\* The request in flight ends: _make_request returns, retries or raises, and the
\* wrapper returns, goes to the backup or raises.
RPCRequestDone ==
    /\ RPCOnly
    /\ rpc.pc = "request"
    /\ \E outcome \in RequestOutcomes :
          /\ attempts' = Append(attempts, [endpoint |-> rpc.endpoint, outcome |-> outcome])
          /\ rpc' =
                IF outcome = "ok" THEN Returned(rpc.method, rpc.endpoint)
                ELSE IF ShouldRetry(outcome, rpc.attempt)
                THEN Requesting(rpc.method, rpc.endpoint, rpc.attempt + 1)
                ELSE IF rpc.endpoint = "primary" /\ FailsOver(RaisedBy(outcome), backup_client)
                THEN Requesting(rpc.method, "backup", 1)
                ELSE Raised(rpc.method, RaisedBy(outcome), rpc.endpoint)
    /\ UNCHANGED <<rpc_initialized, backup_client>>

RPCNext ==
    \/ RPCInitialize
    \/ RPCCall
    \/ RPCRequestDone

(***************************************************************************)
(* WebSocketManager                                                        *)
(***************************************************************************)
MaxSubscriptions == 2           \* subscriptions held at most
MaxSubscriptionId == 3          \* subscribe calls are issued ids below this
MaxSurplusCloses == 1           \* disconnect() calls counted beyond the connections made

\* _resubscribe_all is issued ids below this
MaxResubscribedId == MaxSubscriptionId + MaxSubscriptions

_max_reconnect_attempts == 10

Handlers == {"h1", "h2"}
Kinds == {"logs", "account"}

\* what a subscription of each kind is about: the program ids, the account address
Target(kind) == IF kind = "logs" THEN "programs" ELSE "address"

\* the subscription ids the remote side assigns in its acknowledgments
RemoteIds == {1, 2}

\* the wait before a reconnect attempt, "2 ** self._reconnect_attempts"
Backoff_linear(attempt) == 2 * attempt
Backoff(attempt) == 2 ^ attempt

\* "if self._reconnect_attempts < self._max_reconnect_attempts"
MayReconnect(attempt) == attempt < _max_reconnect_attempts

\* how listen() ends when the reconnect attempts are used up: "break" leaves the loop,
\* the finally clause runs and listen() returns
ExhaustedOutcome == "returned"

\* the task of listen(): where it is, the backoff wait it sleeps, whether it took the
\* exhausted branch, what raised out of it, the notification id and the handler it
\* awaits, whether the last handler raised
Listener(pc) ==
    [pc |-> pc, wait |-> 0, exhausted |-> FALSE, error |-> "", sid |-> 0,
     handler |-> "", absorbed |-> FALSE]

NoUnsubscribe == [called |-> FALSE, known |-> FALSE, sent |-> FALSE, raised |-> FALSE,
                  removed |-> FALSE, changed |-> FALSE]

InitWS ==
    /\ ws = "none"
    /\ ws_running = FALSE
    /\ subscriptions = <<>>
    /\ ws_callbacks = <<>>
    /\ subscription_id_counter = 0
    /\ reconnect_attempts = 0
    /\ listen = Listener("idle")
    /\ reconnects = 0
    /\ acks = <<>>
    /\ unsubscribed = NoUnsubscribe
    /\ stopped = FALSE
    /\ websocket_connections = 0

\* disconnect(): the connection is closed, the handle stays
Disconnected(handle) == IF handle = "none" THEN "none" ELSE "closed"

\* "self._reconnect_attempts = 0" of connect(), after websockets.connect() has returned
AttemptsAfterConnect_kept(attempt) == attempt
AttemptsAfterConnect(attempt) == 0

\* "websocket_connections.inc()" of connect(), after websockets.connect() has returned
GaugeAfterConnect(gauge) == gauge + 1

\* "if self.ws: await self.ws.close(); websocket_connections.dec()" of disconnect(): the
\* handle is tested, not the state of the connection. The gauge is followed down to
\* -MaxSurplusCloses and held there.
GaugeAfterDisconnect(handle, gauge) ==
    IF handle = "none" THEN gauge
    ELSE IF gauge > -MaxSurplusCloses THEN gauge - 1 ELSE gauge

\* connect() when "not self.ws"
GaugeAfterFirstConnect(handle, gauge) ==
    IF handle = "none" THEN GaugeAfterConnect(gauge) ELSE gauge

\* subscribe_logs / subscribe_account registering `handler` under the next id
Registered(table, id, kind, handler) ==
    Put(table, id, [type |-> kind, target |-> Target(kind), callback |-> handler])

\* the table without the entry of id
Without(table, id) == [x \in DOMAIN table \ {id} |-> table[x]]

\* the ids the remote side has assigned to the subscriptions of the table
Assigned(table) == {table[id] : id \in DOMAIN table}

\* subscribe_logs(program_ids, callback), subscribe_account(address, callback):
\* connect() when there is no handle, the next id, the request(s), the registration
WSSubscribe ==
    /\ WSOnly
    /\ Cardinality(DOMAIN subscriptions) < MaxSubscriptions
    /\ subscription_id_counter < MaxSubscriptionId
    /\ stopped' = FALSE
    /\ \E kind \in Kinds, handler \in Handlers, connected \in BOOLEAN, sent \in BOOLEAN :
          IF ws = "none" /\ ~connected
          THEN \* connect() raises
               UNCHANGED <<ws, subscriptions, ws_callbacks, subscription_id_counter,
                           reconnect_attempts, websocket_connections>>
          ELSE /\ subscription_id_counter' = subscription_id_counter + 1
               /\ reconnect_attempts' =
                     IF ws = "none" THEN AttemptsAfterConnect(reconnect_attempts)
                     ELSE reconnect_attempts
               /\ websocket_connections' = GaugeAfterFirstConnect(ws, websocket_connections)
               /\ IF ws # "closed" /\ sent
                  THEN /\ ws' = "open"
                       /\ subscriptions' =
                             Registered(subscriptions, subscription_id_counter, kind, handler)
                       /\ ws_callbacks' = Put(ws_callbacks, subscription_id_counter, handler)
                  ELSE \* send() raises: the connection is gone
                       /\ ws' = "closed"
                       /\ UNCHANGED <<subscriptions, ws_callbacks>>
    /\ UNCHANGED <<ws_running, listen, reconnects, acks, unsubscribed>>

\* "if self.ws: await self.ws.send(...)" of unsubscribe: is a request sent
UnsubscribeSends_unknown_too(known, handle) == handle # "none"
UnsubscribeSends(known, handle) == known /\ handle # "none"

\* unsubscribe(subscription_id), with an id that was issued or the one to be issued next:
\* an unknown id returns at once; for a known one the request is sent when there is a
\* handle, and the two del statements follow the send
WSUnsubscribe ==
    /\ WSOnly
    /\ \E id \in 0..subscription_id_counter, delivered_ok \in BOOLEAN :
          LET known == id \in DOMAIN subscriptions
              sends == UnsubscribeSends(known, ws)
              raises == sends /\ (ws = "closed" \/ ~delivered_ok)
          IN /\ ws' = IF raises THEN "closed" ELSE ws
             /\ IF known /\ ~raises
                THEN /\ subscriptions' = Without(subscriptions, id)
                     /\ ws_callbacks' = Without(ws_callbacks, id)
                     /\ acks' = Without(acks, id)
                ELSE UNCHANGED <<subscriptions, ws_callbacks, acks>>
             /\ unsubscribed' =
                   [called |-> TRUE, known |-> known, sent |-> sends, raised |-> raises,
                    removed |-> /\ id \notin DOMAIN subscriptions'
                                /\ id \notin DOMAIN ws_callbacks',
                    changed |-> \/ ws' # ws
                                \/ subscriptions' # subscriptions
                                \/ ws_callbacks' # ws_callbacks]
    /\ UNCHANGED <<ws_running, subscription_id_counter, reconnect_attempts, listen,
                   reconnects, stopped, websocket_connections>>

\* the fields of the manager
Manager ==
    [ws |-> ws, running |-> ws_running, subscriptions |-> subscriptions,
     callbacks |-> ws_callbacks, subscription_id_counter |-> subscription_id_counter,
     reconnect_attempts |-> reconnect_attempts]

\* stop(): running = False, disconnect()
StopOnce_flag_first(m) ==
    IF m.running THEN [m EXCEPT !.running = FALSE] ELSE [m EXCEPT !.ws = Disconnected(m.ws)]
StopOnce(m) == [m EXCEPT !.running = FALSE, !.ws = Disconnected(m.ws)]

WSStop ==
    /\ WSOnly
    /\ LET m == StopOnce(Manager)
       IN /\ ws' = m.ws
          /\ ws_running' = m.running
          /\ subscriptions' = m.subscriptions
          /\ ws_callbacks' = m.callbacks
          /\ subscription_id_counter' = m.subscription_id_counter
          /\ reconnect_attempts' = m.reconnect_attempts
    /\ websocket_connections' = GaugeAfterDisconnect(ws, websocket_connections)
    /\ stopped' = TRUE
    /\ UNCHANGED <<listen, reconnects, acks, unsubscribed>>

\* listen() is called: connect() when there is no handle, then running = True
ListenStart ==
    /\ WSOnly
    /\ listen.pc \in {"idle", "returned", "raised"}
    /\ reconnects' = 0
    /\ stopped' = FALSE
    /\ \E connected \in BOOLEAN :
          IF ws = "none" /\ ~connected
          THEN \* connect() raises before the try
               /\ listen' = [Listener("raised") EXCEPT !.error = "connect"]
               /\ UNCHANGED <<ws, ws_running, reconnect_attempts, websocket_connections>>
          ELSE /\ ws' = IF ws = "none" THEN "open" ELSE ws
               /\ websocket_connections' = GaugeAfterFirstConnect(ws, websocket_connections)
               /\ reconnect_attempts' =
                     IF ws = "none" THEN AttemptsAfterConnect(reconnect_attempts)
                     ELSE reconnect_attempts
               /\ ws_running' = TRUE
               /\ listen' = Listener("recv")
    /\ UNCHANGED <<subscriptions, ws_callbacks, subscription_id_counter, acks, unsubscribed>>

\* the finally clause of listen(): running = False, disconnect()
ListenFinally(outcome, exhausted) ==
    /\ ws_running' = FALSE
    /\ ws' = Disconnected(ws)
    /\ websocket_connections' = GaugeAfterDisconnect(ws, websocket_connections)
    /\ listen' = [Listener(outcome) EXCEPT !.exhausted = exhausted]

\* "except Exception" of listen(): the error is logged and raised, the finally clause runs
ListenRaiseAfter(error, gauge) ==
    /\ ws_running' = FALSE
    /\ ws' = Disconnected(ws)
    /\ websocket_connections' = GaugeAfterDisconnect(ws, gauge)
    /\ listen' = [Listener("raised") EXCEPT !.error = error]

ListenRaise(error) == ListenRaiseAfter(error, websocket_connections)

\* "while self.running" after an iteration that ended without an exception: the next
\* recv(), or the end of the loop and the finally clause
ListenLoop(absorbed) ==
    IF ws_running
    THEN /\ listen' = [Listener("recv") EXCEPT !.absorbed = absorbed]
         /\ UNCHANGED <<ws, ws_running, websocket_connections>>
    ELSE ListenFinally("returned", FALSE)

\* recv() on an open connection: a confirmation, which is ignored, or the timeout and a
\* ping that is answered
ListenMessage ==
    /\ WSOnly
    /\ listen.pc = "recv"
    /\ ws = "open"
    /\ UNCHANGED wsVars

\* recv() returns the acknowledgment of a subscribe request, with the subscription id
\* the remote side has assigned: it is logged and ignored
ListenConfirmation ==
    /\ WSOnly
    /\ listen.pc = "recv"
    /\ ws = "open"
    /\ \E id \in DOMAIN subscriptions \ DOMAIN acks, remote \in RemoteIds \ Assigned(acks) :
          acks' = Put(acks, id, remote)
    /\ UNCHANGED <<ws, ws_running, subscriptions, ws_callbacks, subscription_id_counter,
                   reconnect_attempts, listen, reconnects, unsubscribed, stopped,
                   websocket_connections>>

\* recv() returns a notification: _handle_event looks its "subscription" up in
\* self.callbacks and awaits the handler found there
ListenNotification ==
    /\ WSOnly
    /\ listen.pc = "recv"
    /\ ws = "open"
    /\ \E sid \in RemoteIds :
          listen' = IF sid \in DOMAIN ws_callbacks
                    THEN [Listener("callback") EXCEPT !.sid = sid,
                                                      !.handler = ws_callbacks[sid]]
                    ELSE Listener("recv")
    /\ UNCHANGED <<ws, ws_running, subscriptions, ws_callbacks, subscription_id_counter,
                   reconnect_attempts, reconnects, acks, unsubscribed, stopped,
                   websocket_connections>>

\* the try/except Exception of _handle_event around the handler
EventOutcome_unguarded(outcome) == IF outcome = "raises" THEN "raise" ELSE "continue"
EventOutcome(outcome) == "continue"

\* the awaited handler has returned or raised
ListenCallbackDone ==
    /\ WSOnly
    /\ listen.pc = "callback"
    /\ \E outcome \in {"returns", "raises"} :
          IF EventOutcome(outcome) = "continue"
          THEN ListenLoop(outcome = "raises")
          ELSE ListenRaise("handler")
    /\ UNCHANGED <<subscriptions, ws_callbacks, subscription_id_counter,
                   reconnect_attempts, reconnects, acks, unsubscribed, stopped>>

\* recv() raises a WebSocketException: the reconnect branch
ListenTransportFailure ==
    /\ WSOnly
    /\ listen.pc = "recv"
    /\ ws # "none"
    /\ IF MayReconnect(reconnect_attempts)
       THEN /\ reconnect_attempts' = reconnect_attempts + 1
            /\ listen' = [Listener("backoff") EXCEPT !.wait = Backoff(reconnect_attempts + 1)]
            /\ ws' = "closed"
            /\ UNCHANGED <<ws_running, websocket_connections>>
       ELSE /\ ListenFinally(ExhaustedOutcome, TRUE)
            /\ UNCHANGED reconnect_attempts
    /\ UNCHANGED <<subscriptions, ws_callbacks, subscription_id_counter, reconnects,
                   acks, unsubscribed, stopped>>

\* Any other exception in the loop body (a message that is not JSON, a ping on a lost
\* connection inside the timeout handler): "except Exception" logs and raises.
ListenFatal ==
    /\ WSOnly
    /\ listen.pc = "recv"
    /\ ws = "open"
    /\ ListenRaise("message")
    /\ UNCHANGED <<subscriptions, ws_callbacks, subscription_id_counter,
                   reconnect_attempts, reconnects, acks, unsubscribed, stopped>>

\* the ids of a table, in the order of insertion (ids are issued in increasing order)
RECURSIVE IdsInOrder(_)
IdsInOrder(ids) ==
    IF ids = {} THEN <<>>
    ELSE LET first == CHOOSE id \in ids : \A other \in ids : id <= other
         IN <<first>> \o IdsInOrder(ids \ {first})

\* _resubscribe_all() whose first n subscribe calls succeed: the table is cleared and
\* the first n subscriptions are registered again under the next ids
RECURSIVE Resubscribed_same_ids(_, _, _, _)
Resubscribed_same_ids(old, order, n, next_id) ==
    IF n = 0 \/ order = <<>> THEN <<>>
    ELSE Put(Resubscribed_same_ids(old, Tail(order), n - 1, next_id + 1), Head(order),
             old[Head(order)])

RECURSIVE Resubscribed(_, _, _, _)
Resubscribed(old, order, n, next_id) ==
    IF n = 0 \/ order = <<>> THEN <<>>
    ELSE Put(Resubscribed(old, Tail(order), n - 1, next_id + 1), next_id, old[Head(order)])

\* self.callbacks after _resubscribe_all(): "self.callbacks.clear()", then each subscribe
\* call that succeeds writes the handler of its subscription under the new id
ResubscribedCallbacks_not_cleared(old, table) ==
    [id \in DOMAIN old \cup DOMAIN table |->
        IF id \in DOMAIN table THEN table[id].callback ELSE old[id]]
ResubscribedCallbacks(old, table) == [id \in DOMAIN table |-> table[id].callback]

\* The backoff sleep is over: disconnect(), connect(). An exception of connect() leaves
\* the except clause it is raised in: "except Exception" logs it and raises, the finally
\* clause runs.
ListenReconnect ==
    /\ WSOnly
    /\ listen.pc = "backoff"
    /\ subscription_id_counter + Cardinality(DOMAIN subscriptions) <= MaxResubscribedId
    /\ reconnects' = Min(reconnects + 1, _max_reconnect_attempts + 1)
    /\ \E connected \in BOOLEAN :
          IF connected
          THEN /\ reconnect_attempts' = AttemptsAfterConnect(reconnect_attempts)
               /\ ws' = "open"
               /\ websocket_connections' =
                     GaugeAfterConnect(GaugeAfterDisconnect(ws, websocket_connections))
               /\ listen' = Listener("resubscribe")
               /\ UNCHANGED ws_running
          ELSE /\ ListenRaiseAfter("connect",
                                   GaugeAfterDisconnect(ws, websocket_connections))
               /\ UNCHANGED reconnect_attempts
    /\ UNCHANGED <<subscriptions, ws_callbacks, subscription_id_counter, acks,
                   unsubscribed, stopped>>

\* _resubscribe_all() on the new connection, then the loop condition. A subscribe call
\* that raises ends listen() as a failed connect() does.
ListenResubscribe ==
    /\ WSOnly
    /\ listen.pc = "resubscribe"
    /\ subscription_id_counter + Cardinality(DOMAIN subscriptions) <= MaxResubscribedId
    /\ \E n \in 0..(IF ws = "open" THEN Cardinality(DOMAIN subscriptions) ELSE 0) :
          LET order == IdsInOrder(DOMAIN subscriptions)
              all == n = Len(order)
              table == Resubscribed(subscriptions, order, n, subscription_id_counter)
          IN /\ subscriptions' = table
             /\ ws_callbacks' = ResubscribedCallbacks(ws_callbacks, table)
             /\ acks' = <<>>
             /\ subscription_id_counter' =
                   subscription_id_counter + (IF all THEN n ELSE n + 1)
             /\ IF all THEN ListenLoop(FALSE) ELSE ListenRaise("subscribe")
    /\ UNCHANGED <<reconnect_attempts, reconnects, unsubscribed, stopped>>

\* listen() is called on a manager that has not listened before
ListenOnce == ListenStart /\ listen.pc = "idle"

\* subscribing, listening and reconnecting, with any number of listen() calls
WSNext ==
    \/ WSSubscribe
    \/ ListenStart
    \/ ListenMessage
    \/ ListenTransportFailure
    \/ ListenFatal
    \/ ListenReconnect
    \/ ListenResubscribe

\* the first reconnect attempt of a run of listen()
ListenReconnectOnce == ListenReconnect /\ reconnects = 0

\* one listen() call, as DEXMonitor makes it, and stop()
WSStopNext ==
    \/ WSSubscribe
    \/ WSStop
    \/ ListenOnce
    \/ ListenNotification
    \/ ListenCallbackDone
    \/ ListenTransportFailure
    \/ ListenFatal
    \/ ListenReconnect
    \/ ListenResubscribe

\* one listen() call with at most one reconnect: the messages of the remote side and
\* unsubscribe()
WSEventNext ==
    \/ WSSubscribe
    \/ WSUnsubscribe
    \/ ListenOnce
    \/ ListenConfirmation
    \/ ListenNotification
    \/ ListenCallbackDone
    \/ ListenTransportFailure
    \/ ListenFatal
    \/ ListenReconnectOnce
    \/ ListenResubscribe

(***************************************************************************)
(* subscribe_logs / subscribe_account called by concurrent tasks: one step  *)
(* from each await that suspends (connect(), send()) to the next            *)
(***************************************************************************)
Callers == {1, 2}

\* a subscribe call: where it is, its arguments, whether it has awaited connect(), the
\* id it took
Call(pc) == [pc |-> pc, kind |-> "", handler |-> "", connected |-> FALSE, id |-> None]

InitCalls ==
    /\ subscribers = [c \in Callers |-> Call("idle")]
    /\ orphans = 0

\* each calling task passes its own handler
HandlerOf(c) == IF c = 1 THEN "h1" ELSE "h2"

\* and calls its own method: subscribe_logs the first, subscribe_account the second
KindOf(c) == IF c = 1 THEN "logs" ELSE "account"

\* the call has returned or raised: its arguments are gone
Ended(call, pc) == [call EXCEPT !.pc = pc, !.kind = "", !.handler = ""]

\* "if not self.ws": None is false, a connection object is true, open or closed
NeedsConnect(handle) == handle = "none"

\* "subscription_id = self.subscription_id_counter; self.subscription_id_counter += 1"
NextCounter_kept(counter) == counter
NextCounter(counter) == counter + 1

\* the call is made: with a handle, the id is taken and the request is on its way; without
\* one, connect() is awaited
SubscribeCall(c) ==
    /\ CallOnly
    /\ subscribers[c].pc \in {"idle", "done", "failed"}
    /\ Cardinality(DOMAIN subscriptions) < MaxSubscriptions
    /\ subscription_id_counter < MaxSubscriptionId
    /\ stopped' = FALSE
    /\ \E kind \in {KindOf(c)} :
          LET call == [Call("connect") EXCEPT !.kind = kind, !.handler = HandlerOf(c)]
          IN IF NeedsConnect(ws)
             THEN /\ subscribers' = [subscribers EXCEPT ![c] = call]
                  /\ UNCHANGED subscription_id_counter
             ELSE /\ subscribers' =
                        [subscribers EXCEPT
                            ![c] = [call EXCEPT !.pc = "send",
                                                !.id = Some(subscription_id_counter)]]
                  /\ subscription_id_counter' = NextCounter(subscription_id_counter)
    /\ UNCHANGED <<ws, ws_running, subscriptions, ws_callbacks, reconnect_attempts, listen,
                   reconnects, acks, unsubscribed, orphans, websocket_connections>>

\* websockets.connect() returns or raises. "self.ws = ..." drops the handle that another
\* task has stored in the meantime without closing it. The id is taken in the same step.
SubscribeConnected(c) ==
    /\ CallOnly
    /\ subscribers[c].pc = "connect"
    /\ \E established \in BOOLEAN :
          IF established
          THEN /\ ws' = "open"
               /\ orphans' = IF ws = "open" THEN orphans + 1 ELSE orphans
               /\ websocket_connections' = GaugeAfterConnect(websocket_connections)
               /\ reconnect_attempts' = AttemptsAfterConnect(reconnect_attempts)
               /\ subscribers' =
                     [subscribers EXCEPT
                         ![c] = [@ EXCEPT !.pc = "send", !.connected = TRUE,
                                          !.id = Some(subscription_id_counter)]]
               /\ subscription_id_counter' = NextCounter(subscription_id_counter)
          ELSE /\ subscribers' = [subscribers EXCEPT ![c] = Ended(@, "failed")]
               /\ UNCHANGED <<ws, orphans, reconnect_attempts, subscription_id_counter,
                              websocket_connections>>
    /\ UNCHANGED <<ws_running, subscriptions, ws_callbacks, listen, reconnects, acks,
                   unsubscribed, stopped>>

\* send() returns, the two tables are written and the id is returned; or send() raises,
\* as it does on a closed connection
SubscribeSent(c) ==
    /\ CallOnly
    /\ subscribers[c].pc = "send"
    /\ \E sent \in BOOLEAN :
          LET call == subscribers[c]
              id == call.id[1]
          IN IF ws = "open" /\ sent
             THEN /\ subscriptions' = Registered(subscriptions, id, call.kind, call.handler)
                  /\ ws_callbacks' = Put(ws_callbacks, id, call.handler)
                  /\ subscribers' = [subscribers EXCEPT ![c] = Ended(@, "done")]
                  /\ UNCHANGED ws
             ELSE /\ ws' = "closed"
                  /\ subscribers' = [subscribers EXCEPT ![c] = Ended(@, "failed")]
                  /\ UNCHANGED <<subscriptions, ws_callbacks>>
    /\ UNCHANGED <<ws_running, subscription_id_counter, reconnect_attempts, listen,
                   reconnects, acks, unsubscribed, stopped, orphans, websocket_connections>>

\* two callers of subscribe, one listen() call with one reconnect, and stop()
CallsNext ==
    \/ \E c \in Callers : SubscribeCall(c)
    \/ \E c \in Callers : SubscribeConnected(c)
    \/ \E c \in Callers : SubscribeSent(c)
    \/ WSStop
    \/ ListenOnce
    \/ ListenTransportFailure
    \/ ListenReconnectOnce
    \/ ListenResubscribe

(***************************************************************************)
(* TokenValidator (src/src/scoring/validators.py)                          *)
(***************************************************************************)
holder_threshold == 80          \* percent
max_dev_wallet_percent == 5
min_liquidity == 500            \* USD

\* the TokenMetrics a caller can hand over: the fields the checks read
TokenMetricsSet ==
    [mint_authority : {None, Some("authority")},
     freeze_authority : {None, Some("authority")},
     top_10_holders_percent : {0, 25, 85},
     dev_wallet_percent : {3, 60},
     liquidity_usd : {0, 500, 50000},
     volume_24h : {0, 6000},
     buy_transactions_24h : {0, 1},
     sell_transactions_24h : {0, 1}]

\* what the Solscan request of _check_contract_verification comes to
SolscanOutcomes == {"not_configured", "verified", "not_verified", "not_200", "raises"}

PairAddresses == {None, Some("pair")}

InitValidator ==
    /\ metrics = None
    /\ validation = None

ValidationCheck(name, status, severity) ==
    [name |-> name, status |-> status, severity |-> severity]

_check_mint_authority(m) ==
    ValidationCheck("Mint Authority",
                    IF m.mint_authority = None THEN "pass" ELSE "fail", "critical")

_check_freeze_authority(m) ==
    ValidationCheck("Freeze Authority",
                    IF m.freeze_authority = None THEN "pass" ELSE "fail", "critical")

_check_holder_distribution(m) ==
    ValidationCheck("Holder Distribution",
                    IF m.top_10_holders_percent = 0 THEN "pass"
                    ELSE IF m.top_10_holders_percent <= holder_threshold THEN "pass"
                    ELSE "warning",
                    "medium")

_check_dev_wallet(m) ==
    ValidationCheck("Dev Wallet",
                    IF m.dev_wallet_percent <= max_dev_wallet_percent THEN "pass"
                    ELSE "warning",
                    "medium")

_check_liquidity(m) ==
    ValidationCheck("Liquidity",
                    IF m.liquidity_usd >= min_liquidity THEN "pass"
                    ELSE IF m.liquidity_usd > 0 THEN "pass"
                    ELSE "pass",
                    "medium")

_check_contract_verification(m, solscan) ==
    CASE solscan = "not_configured" -> ValidationCheck("Contract Verification", "unknown", "low")
      [] solscan = "verified" -> ValidationCheck("Contract Verification", "pass", "medium")
      [] solscan = "not_verified" ->
            ValidationCheck("Contract Verification", "warning", "medium")
      [] OTHER -> ValidationCheck("Contract Verification", "unknown", "medium")

\* the number of red flags _check_honeypot collects
HoneypotFlags(m) ==
    (IF m.dev_wallet_percent > 50 THEN 1 ELSE 0)
    + (IF m.buy_transactions_24h > 0 /\ m.sell_transactions_24h = 0 THEN 1 ELSE 0)
    + (IF m.liquidity_usd > 0 /\ m.volume_24h > m.liquidity_usd * 10 THEN 1 ELSE 0)

_check_honeypot(m) ==
    ValidationCheck("Honeypot Check",
                    IF HoneypotFlags(m) > 0 THEN "fail" ELSE "pass", "critical")

_check_lp_lock(m, pair_address) ==
    ValidationCheck("LP Lock", IF pair_address = None THEN "unknown" ELSE "warning", "high")

\* the list "checks" of validate(), in its order
ChecksOf(m, pair_address, solscan) ==
    <<_check_mint_authority(m), _check_freeze_authority(m), _check_holder_distribution(m),
      _check_dev_wallet(m), _check_liquidity(m), _check_contract_verification(m, solscan),
      _check_honeypot(m), _check_lp_lock(m, pair_address)>>

\* ValidationResult(token_address=..., overall_status=UNKNOWN); a message is stood for
\* by the name of its check
NewResult ==
    [overall_status |-> "unknown", checks |-> <<>>, red_flags |-> <<>>, warnings |-> <<>>,
     passed_checks |-> 0, failed_checks |-> 0]

\* the body of the loop "for check in checks"
Tally(r, check) ==
    LET appended == [r EXCEPT !.checks = Append(@, check)]
    IN CASE check.status = "pass" -> [appended EXCEPT !.passed_checks = @ + 1]
         [] check.status = "fail" ->
               [appended EXCEPT !.failed_checks = @ + 1,
                                !.red_flags = IF check.severity \in {"high", "critical"}
                                              THEN Append(@, check.name) ELSE @]
         [] check.status = "warning" -> [appended EXCEPT !.warnings = Append(@, check.name)]
         [] OTHER -> appended

RECURSIVE Tallied(_, _)
Tallied(r, checks) ==
    IF checks = <<>> THEN r ELSE Tallied(Tally(r, Head(checks)), Tail(checks))

\* "Determine overall status"
OverallStatus_warnings_ignored(failed_checks, warnings) ==
    IF failed_checks = 0 THEN "pass" ELSE "fail"
OverallStatus(failed_checks, warnings) ==
    IF failed_checks = 0
    THEN IF warnings # <<>> THEN "warning" ELSE "pass"
    ELSE "fail"

validate(m, pair_address, solscan) ==
    LET r == Tallied(NewResult, ChecksOf(m, pair_address, solscan))
    IN [r EXCEPT !.overall_status = OverallStatus(r.failed_checks, r.warnings)]

is_safe(r) == r.overall_status \in {"pass", "warning"}

\* a caller has the metrics of a token
FetchMetrics ==
    /\ ValOnly
    /\ \E m \in TokenMetricsSet : metrics' = Some(m)
    /\ validation' = None

\* validate(metrics, pair_address)
Validate ==
    /\ ValOnly
    /\ metrics # None
    /\ \E pair_address \in PairAddresses, solscan \in SolscanOutcomes :
          validation' = Some(validate(metrics[1], pair_address, solscan))
    /\ UNCHANGED metrics

ValidatorNext ==
    \/ FetchMetrics
    \/ Validate

\* a loop task: where it is, and how many start() calls had created tasks when it last
\* read the flag and found it up
Loop(pc) == [pc |-> pc, epoch |-> 0]

InitLoops ==
    /\ pollers = <<>>
    /\ sweepers = <<>>

(***************************************************************************)
(* MoonScanner (src/src/scanner.py): the observer of new pairs             *)
(***************************************************************************)
MaxCounted == 2                 \* the calls made for a token are counted up to this

\* the tasks of the monitor that announce pairs: _handle_new_pair awaits the observer
Announcers == {"poll", "push"}

\* an _on_new_pair call: where it is, its token, whether the score meets the threshold
Handling(pc) == [pc |-> pc, token |-> "", meets |-> FALSE]

InitScanner ==
    /\ processed_tokens = {}
    /\ handling = [a \in Announcers |-> Handling("idle")]
    /\ metrics_fetched = [token \in Tokens |-> 0]
    /\ alerts_sent = [token \in Tokens |-> 0]
    /\ failed_tokens = {}
    /\ skipped_tokens = {}

\* one more call for the token
Counted(count, token) ==
    [count EXCEPT ![token] = IF @ < MaxCounted THEN @ + 1 ELSE @]

\* "if pair.token_address in self.processed_tokens: return"
AlreadyProcessed(token, processed) == token \in processed

\* self.processed_tokens when the processing of `token` has raised: "except Exception"
\* logs the error, the token stays recorded
ProcessedAfterFailure_forgets(processed, token) == processed \ {token}
ProcessedAfterFailure(processed, token) == processed

\* the processing of the call of announcer a has raised
ProcessingFailed(a) ==
    /\ handling' = [handling EXCEPT ![a] = Handling("idle")]
    /\ failed_tokens' = failed_tokens \cup {handling[a].token}
    /\ processed_tokens' = ProcessedAfterFailure(processed_tokens, handling[a].token)

\* _on_new_pair(pair) is called, up to its first await: a recorded token returns at once;
\* any other is recorded and fetch_metrics is called
OnNewPair(a) ==
    /\ ScanOnly
    /\ handling[a].pc = "idle"
    /\ \E token \in Tokens :
          IF AlreadyProcessed(token, processed_tokens)
          THEN /\ skipped_tokens' = skipped_tokens \cup {token}
               /\ UNCHANGED <<processed_tokens, handling, metrics_fetched>>
          ELSE /\ processed_tokens' = processed_tokens \cup {token}
               /\ handling' = [handling EXCEPT ![a] = [Handling("metrics") EXCEPT !.token = token]]
               /\ metrics_fetched' = Counted(metrics_fetched, token)
               /\ UNCHANGED skipped_tokens
    /\ UNCHANGED <<alerts_sent, failed_tokens>>

\* fetch_metrics returns or raises; the score is calculated and validate is called
MetricsFetched(a) ==
    /\ ScanOnly
    /\ handling[a].pc = "metrics"
    /\ \E raised \in BOOLEAN, meets \in BOOLEAN :
          IF raised
          THEN ProcessingFailed(a)
          ELSE /\ handling' = [handling EXCEPT ![a] = [@ EXCEPT !.pc = "validate",
                                                               !.meets = meets]]
               /\ UNCHANGED <<processed_tokens, failed_tokens>>
    /\ UNCHANGED <<metrics_fetched, alerts_sent, skipped_tokens>>

\* validate returns or raises; "if moon_score.total_score >= min_moon_score_threshold"
\* _send_alerts is called
Validated(a) ==
    /\ ScanOnly
    /\ handling[a].pc = "validate"
    /\ \E raised \in BOOLEAN :
          IF raised
          THEN ProcessingFailed(a) /\ UNCHANGED alerts_sent
          ELSE /\ IF handling[a].meets
                  THEN /\ handling' = [handling EXCEPT ![a] = [@ EXCEPT !.pc = "alerts"]]
                       /\ alerts_sent' = Counted(alerts_sent, handling[a].token)
                  ELSE /\ handling' = [handling EXCEPT ![a] = Handling("idle")]
                       /\ UNCHANGED alerts_sent
               /\ UNCHANGED <<processed_tokens, failed_tokens>>
    /\ UNCHANGED <<metrics_fetched, skipped_tokens>>

\* _send_alerts returns (gather(..., return_exceptions=True) raises nothing) and
\* tokens_alerted is incremented
AlertsSent(a) ==
    /\ ScanOnly
    /\ handling[a].pc = "alerts"
    /\ handling' = [handling EXCEPT ![a] = Handling("idle")]
    /\ UNCHANGED <<processed_tokens, metrics_fetched, alerts_sent, failed_tokens,
                   skipped_tokens>>

\* the monitor announces pairs, of any token and any number of times, on both paths
ScannerNext ==
    \/ \E a \in Announcers : OnNewPair(a)
    \/ \E a \in Announcers : MetricsFetched(a)
    \/ \E a \in Announcers : Validated(a)
    \/ \E a \in Announcers : AlertsSent(a)

Init == InitMon /\ InitRPC /\ InitWS /\ InitCalls /\ InitValidator /\ InitLoops /\ InitScanner

SpecScanner == Init /\ [][ScannerNext]_vars

Next == MonNext

Spec == Init /\ [][Next]_vars

SpecRPC == Init /\ [][RPCNext]_vars

SpecWS == Init /\ [][WSNext]_vars

SpecWSStop == Init /\ [][WSStopNext]_vars

SpecWSEvent == Init /\ [][WSEventNext]_vars

SpecWSCalls == Init /\ [][CallsNext]_vars

SpecValidator == Init /\ [][ValidatorNext]_vars

\* stop(): running = False, active_monitors.dec(), then ws_manager.stop(). No task is
\* cancelled or woken: each goes on from the await it is at.
Stop ==
    /\ UNCHANGED <<rpcVars, callVars, valVars, loopVars, scanVars>>
    /\ UNCHANGED <<refused, returned, unanswered>>
    /\ active_monitors > -MaxSurplusStops
    /\ running' = FALSE
    /\ active_monitors' = active_monitors - 1
    /\ ws' = Disconnected(ws)
    /\ websocket_connections' = GaugeAfterDisconnect(ws, websocket_connections)
    /\ ws_running' = FALSE
    /\ stopped' = TRUE
    /\ UNCHANGED <<subscriptions, ws_callbacks, subscription_id_counter, reconnect_attempts,
                   listen, reconnects, acks, unsubscribed>>
    /\ UNCHANGED <<discovered_pairs, seen_signatures, callbacks, now, poll, push, sweeper,
                   calls, fetched, delivered, swept, dropped, sweeps>>

\* _start_websocket_monitoring: listen() has ended after ws_manager.stop(), the task is over
PushStopped ==
    /\ MonOnly
    /\ UNCHANGED <<active_monitors, refused, returned, unanswered>>
    /\ push.pc = "wait"
    /\ ~running
    /\ push' = Task("done")
    /\ UNCHANGED <<running, discovered_pairs, seen_signatures, callbacks, now, poll,
                   sweeper, calls, fetched, delivered, swept, dropped, sweeps>>

\* the except clause of _start_websocket_monitoring, and the return of listen(): the
\* running flag of the monitor afterwards
AfterPushFailure_stops(flag) == FALSE
AfterPushFailure(flag) == flag

\* _start_websocket_monitoring ends while the monitor runs: subscribe_logs or listen() has
\* raised, or listen() has returned after the reconnect attempts were used up
PushFailed ==
    /\ MonOnly
    /\ UNCHANGED <<active_monitors, refused, returned, unanswered>>
    /\ push.pc = "wait"
    /\ running
    /\ push' = Task("failed")
    /\ running' = AfterPushFailure(running)
    /\ UNCHANGED <<discovered_pairs, seen_signatures, callbacks, now, poll, sweeper, calls,
                   fetched, delivered, swept, dropped, sweeps>>

\* The monitor with stop(), within one unit of the clock (a sweep comes every 5 minutes,
\* a scan cycle every scan_interval_seconds).
StopNext ==
    \/ RegisterCallback
    \/ Start
    \/ Stop
    \/ PollCycle
    \/ PollSignatures
    \/ PollTransaction
    \/ PollNotify
    \/ PushEvent
    \/ PushTransaction
    \/ PushNotify
    \/ PushStopped
    \/ CleanupSweep

SpecStop == Init /\ [][StopNext]_vars

(***************************************************************************)
(* DEXMonitor started and stopped any number of times: every start() that  *)
(* finds the flag down creates a polling task and a sweep task; a task      *)
(* reads the flag when it is created and whenever its sleep is over         *)
(***************************************************************************)
MaxStarts == 2                  \* start() creates tasks at most this many times

\* the variables of the monitor the loop tasks do not touch here
LoopsFrame ==
    UNCHANGED <<seen_signatures, callbacks, now, poll, push, sweeper, calls, fetched,
                delivered, swept, dropped, sweeps, refused, returned, unanswered>>

\* start(): nothing on a running monitor, else the flag, the gauge and the new tasks
StartLoops ==
    /\ LoopsOnly
    /\ LoopsFrame
    /\ UNCHANGED discovered_pairs
    /\ IF running
       THEN UNCHANGED <<running, active_monitors, pollers, sweepers>>
       ELSE /\ Len(pollers) < MaxStarts
            /\ running' = TRUE
            /\ active_monitors' = active_monitors + 1
            /\ pollers' = Append(pollers, Loop("created"))
            /\ sweepers' = Append(sweepers, Loop("created"))

\* "while self.running" of a loop task
LoopCondition(loop, flag, created) ==
    IF flag THEN [pc |-> "running", epoch |-> created] ELSE [loop EXCEPT !.pc = "done"]

\* a polling task begins or its sleep is over: the loop condition, then _scan_dexs
PollerWakes(i) ==
    /\ LoopsOnly
    /\ LoopsFrame
    /\ pollers[i].pc \in {"created", "sleep"}
    /\ pollers' = [pollers EXCEPT ![i] = LoopCondition(@, running, Len(pollers))]
    /\ UNCHANGED <<running, active_monitors, discovered_pairs, sweepers>>

\* _scan_dexs has returned or raised: the task sleeps
PollerScanned(i) ==
    /\ LoopsOnly
    /\ LoopsFrame
    /\ pollers[i].pc = "running"
    /\ pollers' = [pollers EXCEPT ![i] = [@ EXCEPT !.pc = "sleep"]]
    /\ UNCHANGED <<running, active_monitors, discovered_pairs, sweepers>>

\* a sweep task begins: the loop condition, then the sleep of 300 seconds
SweeperBegins(i) ==
    /\ LoopsOnly
    /\ LoopsFrame
    /\ sweepers[i].pc = "created"
    /\ sweepers' = [sweepers EXCEPT ![i] = LoopCondition(@, running, Len(sweepers))]
    /\ UNCHANGED <<running, active_monitors, discovered_pairs, pollers>>

\* the sleep of a sweep task is over: the sweep, then the loop condition
SweeperWakes(i) ==
    /\ LoopsOnly
    /\ LoopsFrame
    /\ sweepers[i].pc = "running"
    /\ discovered_pairs' = DictDel(discovered_pairs, OldPairs(discovered_pairs, now))
    /\ sweepers' = [sweepers EXCEPT ![i] = LoopCondition(@, running, Len(sweepers))]
    /\ UNCHANGED <<running, active_monitors, pollers>>

\* the steps of the tasks, whichever task takes them
SomePollerWakes == \E i \in 1..Len(pollers) : PollerWakes(i)
SomePollerScanned == \E i \in 1..Len(pollers) : PollerScanned(i)
SomeSweeperBegins == \E i \in 1..Len(sweepers) : SweeperBegins(i)
SomeSweeperWakes == \E i \in 1..Len(sweepers) : SweeperWakes(i)

LoopsNext ==
    \/ StartLoops
    \/ Stop
    \/ SomePollerWakes
    \/ SomePollerScanned
    \/ SomeSweeperBegins
    \/ SomeSweeperWakes

SpecLoops == Init /\ [][LoopsNext]_vars

\* a session of a monitor without observers: start(), both paths, the sweep, the clock
\* and stop()
SessionNext ==
    \/ Start
    \/ Stop
    \/ Tick
    \/ PollCycle
    \/ PollSignatures
    \/ PollTransaction
    \/ PushEvent
    \/ PushTransaction
    \/ PushStopped
    \/ CleanupSweep

SpecSession == Init /\ [][SessionNext]_vars

\* get_active_pairs() is called from outside the tasks (scanner.py calls it every second)
\* and the caller keeps the list it returns: a new list of the stored TokenPair objects
GetActivePairs ==
    /\ MonOnly
    /\ returned' = get_active_pairs(discovered_pairs, now)
    /\ UNCHANGED <<running, discovered_pairs, seen_signatures, callbacks, now, poll, push,
                   sweeper, calls, fetched, delivered, swept, dropped, sweeps,
                   active_monitors, refused, unanswered>>

\* A TokenPair is built once per transaction (_extract_pair_info) and never copied: the
\* entry of the store and the element of a returned list that come from one signature
\* are one object, and an assignment to a field of it shows in both.
WrittenThrough(list, item, created) ==
    [i \in 1..Len(list) |->
        IF list[i].signature = item.signature THEN [list[i] EXCEPT !.created_at = created]
        ELSE list[i]]

\* the caller assigns created_at of a pair of the list it holds
CallerWritesPair ==
    /\ MonOnly
    /\ \E i \in 1..Len(returned), created \in Times :
          /\ created # returned[i].created_at
          /\ returned' = WrittenThrough(returned, returned[i], created)
          /\ discovered_pairs' = WrittenThrough(discovered_pairs, returned[i], created)
    /\ UNCHANGED <<running, seen_signatures, callbacks, now, poll, push, sweeper, calls,
                   fetched, delivered, swept, dropped, sweeps, active_monitors, refused,
                   unanswered>>

\* the caller removes the first element of the list it holds
CallerEditsList ==
    /\ MonOnly
    /\ returned # <<>>
    /\ returned' = Tail(returned)
    /\ UNCHANGED <<running, discovered_pairs, seen_signatures, callbacks, now, poll, push,
                   sweeper, calls, fetched, delivered, swept, dropped, sweeps,
                   active_monitors, refused, unanswered>>

\* The polling path, the sweep and a caller of get_active_pairs().
SnapshotNext ==
    \/ Start
    \/ Tick
    \/ PollCycle
    \/ PollSignatures
    \/ PollTransaction
    \/ CleanupSweep
    \/ GetActivePairs
    \/ CallerWritesPair
    \/ CallerEditsList

SpecSnapshot == Init /\ [][SnapshotNext]_vars

\* The polling path when the push path delivers nothing and ends.
FallbackNext ==
    \/ RegisterCallback
    \/ Start
    \/ Stop
    \/ PushFailed
    \/ PollCycle
    \/ PollSignatures
    \/ PollTransaction
    \/ PollNotify

\* The event loop runs a task that is ready: a sleep ends, a provider call answers or
\* raises (every request has a timeout), an observer returns or raises.
PollFairness ==
    /\ WF_vars(PollCycle)
    /\ WF_vars(PollSignatures)
    /\ WF_vars(PollTransaction)
    /\ WF_vars(PollNotify)

SpecFallback == Init /\ [][FallbackNext]_vars /\ PollFairness

(***************************************************************************)
(* Properties of DEXMonitor, under Spec                                    *)
(***************************************************************************)
Entries == {discovered_pairs[i] : i \in 1..Len(discovered_pairs)}

\* the pairs a task is handing to the observers right now
InHand == {task.pair[1] : task \in {t \in {poll, push} : t.pc = "notify"}}

\* callbacks[k] was invoked with the pair derived from sig, how many times
Invocations(k, sig) ==
    LET keys == {key \in DOMAIN calls : key[1] = k /\ key[3] = sig}
    IN IF keys = {} THEN 0
       ELSE IF Cardinality(keys) = 1 THEN calls[CHOOSE key \in keys : TRUE]
       ELSE 2

\* C1: a transaction id, once processed on either path, is discarded wherever it
\* occurs again: its transaction is requested once, and no observer is invoked a
\* second time for the pair derived from it.
C1_IdempotentDiscovery ==
    /\ \A sig \in DOMAIN fetched : fetched[sig] = 1 /\ sig \in seen_signatures
    /\ \A sig \in Signatures : \A k \in 1..Len(callbacks) : Invocations(k, sig) <= 1

\* sigA went through the push path, which is still notifying its pair, while the polling
\* path was answered <<sigA, sigB>>, passed over sigA and is fetching sigB
C1_Witness ==
    /\ push.pc = "notify" /\ push.pair[1].signature = "sigA"
    /\ poll.pc = "get_tx" /\ poll.sigs = <<"sigA", "sigB">> /\ poll.i = 2
    /\ Invocations(1, "sigA") = 1

\* C2: first writer wins. The store holds one entry per token address; the pair the
\* observers were told about is the entry of its token until the sweep removes it;
\* a pair recognised for a token already stored is dropped without any invocation;
\* every registered observer is invoked exactly once for a pair handled to the end.
C2_FirstWriterWins ==
    /\ \A i, j \in 1..Len(discovered_pairs) :
          discovered_pairs[i].token_address = discovered_pairs[j].token_address => i = j
    /\ \A key \in DOMAIN calls :
          /\ calls[key] = 1
          /\ \/ key[3] \in swept
             \/ \E pair \in Entries : pair.token_address = key[2] /\ pair.signature = key[3]
    /\ \A sig \in DOMAIN delivered :
          /\ sig \in swept \/ \E pair \in Entries : pair.signature = sig
          /\ \A k \in 1..Len(callbacks) : Invocations(k, sig) = 1
    /\ \A sig \in dropped : \A k \in 1..Len(callbacks) : Invocations(k, sig) = 0

\* the push path and the polling path recognised TKN1 through sigA and sigB: one of the
\* two was dropped, the other is the entry, and both observers were invoked once
C2_Witness ==
    /\ Len(discovered_pairs) = 1
    /\ discovered_pairs[1].token_address = "TKN1"
    /\ discovered_pairs[1].signature = "sigA"
    /\ dropped = {"sigB"}
    /\ "sigA" \in DOMAIN delivered
    /\ Len(callbacks) = 2
    /\ swept = {}

\* C3: observer isolation. Every pair in the store has been handed, or is being handed,
\* to the observers by the task that found it, and a pair handled to the end was
\* handed to every registered observer, whichever of them raise: the raise of one
\* ends neither the loop over the observers nor the task's scan.
C3_ObserverIsolation ==
    /\ \A pair \in Entries : pair.signature \in DOMAIN delivered \/ pair \in InHand
    /\ \A task \in {t \in {poll, push} : t.pc = "notify"} : \A k \in 1..Len(callbacks) :
          Invocations(k, task.pair[1].signature) = IF k <= task.k THEN 1 ELSE 0
    /\ \A sig \in DOMAIN delivered :
          /\ delivered[sig] = Len(callbacks)
          /\ \A k \in 1..Len(callbacks) : Invocations(k, sig) >= 1

\* the raising observer is first in the list, and the second observer was invoked for
\* the pair of sigA and for the later pair of sigB
C3_Witness ==
    /\ callbacks = <<"raiser", "ok">>
    /\ {"sigA", "sigB"} \subseteq DOMAIN delivered
    /\ Invocations(2, "sigA") = 1
    /\ Invocations(2, "sigB") = 1

\* C4: get_active_pairs() returns no pair older than the maximum age and no two
\* entries with the same token address.
C4_ActivePairs ==
    LET result == get_active_pairs(discovered_pairs, now)
    IN /\ \A i \in 1..Len(result) : now - result[i].created_at <= max_token_age_minutes
       /\ \A i, j \in 1..Len(result) :
             result[i].token_address = result[j].token_address => i = j

\* two stored pairs, one within the maximum age and returned, one beyond it
C4_Witness ==
    /\ Len(discovered_pairs) = 2
    /\ Len(get_active_pairs(discovered_pairs, now)) = 1
    /\ \E pair \in Entries : now - pair.created_at > max_token_age_minutes

TooOld(pair) == now - pair.created_at > 2 * max_token_age_minutes
Kept(pair) == ~TooOld(pair)

\* C5: a run of the cleanup sweep removes exactly the pairs older than twice the
\* maximum age, leaves every other pair in place and unchanged, and leaves the
\* seen-transaction set alone.
C5_SweepExact ==
    [][sweeps' # sweeps =>
          /\ discovered_pairs' = SelectSeq(discovered_pairs, Kept)
          /\ seen_signatures' = seen_signatures]_vars

\* the sweep removed the pair of sigA and left the pair of sigB, which is now exactly
\* twice the maximum age old
C5_Witness ==
    /\ swept = {"sigA"}
    /\ \E pair \in Entries :
          pair.signature = "sigB" /\ now - pair.created_at = 2 * max_token_age_minutes

(***************************************************************************)
(* RPCClient: retry and failover                                           *)
(***************************************************************************)
OnPrimary(a) == a.endpoint = "primary"
OnBackup(a) == a.endpoint = "backup"
PrimaryAttempts == SelectSeq(attempts, OnPrimary)
BackupAttempts == SelectSeq(attempts, OnBackup)

\* the call has sent requests and every request to the primary has failed retryably
PrimaryKeepsFailing ==
    /\ attempts # <<>>
    /\ \A i \in 1..Len(PrimaryAttempts) : PrimaryAttempts[i].outcome = "retryable"

\* the backup has given up: its last request failed and no other follows
BackupGaveUp ==
    /\ BackupAttempts # <<>>
    /\ LET last == BackupAttempts[Len(BackupAttempts)]
       IN \/ last.outcome = "other"
          \/ last.outcome = "retryable" /\ Len(BackupAttempts) = 3

\* C6: when the primary keeps failing with retryable errors, exactly 3 requests go to the
\* primary before the first request to the backup, the backup (only when configured) gets
\* at most 3, an error reaches the caller only after the third primary failure and, with
\* a backup, after the backup has given up too, and a backup that answers on its first
\* request gives the caller the backup's result.
C6_RetryThenFailover ==
    PrimaryKeepsFailing =>
        /\ Len(PrimaryAttempts) <= 3
        /\ Len(BackupAttempts) <= 3
        /\ \A i \in 1..Len(attempts) :
              OnBackup(attempts[i]) =>
                  /\ backup_client
                  /\ i > 3
                  /\ \A j \in 1..3 : OnPrimary(attempts[j])
                  /\ \A j \in 4..Len(attempts) : OnBackup(attempts[j])
        /\ rpc.status = "raised" =>
              /\ Len(PrimaryAttempts) = 3
              /\ backup_client => BackupGaveUp
        /\ (Len(attempts) >= 4 /\ attempts[4].outcome = "ok") =>
              /\ Len(attempts) = 4
              /\ rpc.status = "returned"
              /\ rpc.source = "backup"

C6_Witness ==
    /\ attempts = <<[endpoint |-> "primary", outcome |-> "retryable"],
                    [endpoint |-> "primary", outcome |-> "retryable"],
                    [endpoint |-> "primary", outcome |-> "retryable"],
                    [endpoint |-> "backup", outcome |-> "ok"]>>
    /\ rpc.status = "returned"
    /\ rpc.source = "backup"

\* both endpoints have used up their three requests on retryable failures
BothExhausted ==
    /\ Len(PrimaryAttempts) = 3
    /\ Len(BackupAttempts) = 3
    /\ \A i \in 1..Len(attempts) : attempts[i].outcome = "retryable"

\* C7: when both the primary and the backup are exhausted, the error that reaches the
\* caller is of the kind ProviderUnavailable.
C7_ProviderUnavailable ==
    (rpc.status = "raised" /\ BothExhausted) => rpc.error = "ProviderUnavailable"

\* the original statement of C8: after a non-retryable failure on the primary no other
\* request is sent for the call, and the call has raised
C8_NothingAfterNonRetryable ==
    \A i \in 1..Len(attempts) :
        (OnPrimary(attempts[i]) /\ attempts[i].outcome = "other") =>
            /\ i = Len(attempts)
            /\ rpc.status = "raised"

\* C8: a non-retryable failure on the primary is never followed by another request to the
\* primary; without a backup it is the last request and the call raises that error; with
\* a backup the call goes on against the backup, which has its own three requests.
C8_NonRetryableNotRetried ==
    \A i \in 1..Len(attempts) :
        (OnPrimary(attempts[i]) /\ attempts[i].outcome = "other") =>
            /\ \A j \in (i + 1)..Len(attempts) : OnBackup(attempts[j])
            /\ ~backup_client =>
                  /\ i = Len(attempts)
                  /\ rpc.status = "raised"
                  /\ rpc.error = "OtherError"
                  /\ rpc.source = "primary"
            /\ backup_client =>
                  /\ Len(BackupAttempts) <= 3
                  /\ \/ rpc.pc = "request" /\ rpc.endpoint = "backup"
                     \/ rpc.pc = "done" /\ rpc.source = "backup"

C8_Witness ==
    /\ backup_client
    /\ Len(attempts) = 2
    /\ OnPrimary(attempts[1]) /\ attempts[1].outcome = "other"
    /\ OnBackup(attempts[2]) /\ attempts[2].outcome = "ok"
    /\ rpc.status = "returned"

C10_ExhaustionRaises ==
    listen.exhausted => listen.pc = "raised"

(***************************************************************************)
(* DEXMonitor: stop()                                                      *)
(***************************************************************************)
\* C19: once stop() has begun (running is False) no observer is invoked.
C19_NoNotificationAfterStop == [][~running => calls' = calls]_vars

\* C20: a stop() that finds the polling loop in its sleep between two cycles ends that
\* sleep: the loop does not wait for the timer.
C20_StopWakesSleep ==
    [][(running /\ ~running' /\ poll.pc = "sleep") => poll'.pc # "sleep"]_vars

(***************************************************************************)
(* Properties of WebSocketManager: reconnecting, under SpecWS              *)
(***************************************************************************)
\* C11: a reconnect attempt that fails to establish the connection does not end
\* listen(): the listener waits again, 2^(attempts so far + 1), for the next attempt.
C11_FailedReconnectGoesOn ==
    [][(listen.pc = "backoff" /\ listen'.pc # "backoff") =>
          \/ listen'.pc = "resubscribe"
          \/ listen'.pc = "backoff" /\ listen'.wait = Backoff(reconnect_attempts + 1)]_vars

\* how many entries of the table hold the pairing t
Pairings(table, t) == Cardinality({id \in DOMAIN table : table[id] = t})

\* C12: a _resubscribe_all that succeeds leaves the table with the (kind, filter, handler)
\* triples it held before, each as many times as before, under ids that were never
\* issued before: none is lost, none is duplicated, no old id is used again.
C12_ResubscribeKeepsPairings ==
    [][(listen.pc = "resubscribe" /\ listen'.pc = "recv") =>
          /\ \A id \in DOMAIN subscriptions \cup DOMAIN subscriptions' :
                LET t == IF id \in DOMAIN subscriptions THEN subscriptions[id]
                         ELSE subscriptions'[id]
                IN Pairings(subscriptions', t) = Pairings(subscriptions, t)
          /\ \A id \in DOMAIN subscriptions : id < subscription_id_counter
          /\ \A id \in DOMAIN subscriptions' :
                /\ id >= subscription_id_counter
                /\ id < subscription_id_counter'
                /\ id \notin DOMAIN subscriptions]_vars

\* two subscriptions made under the ids 0 and 1 were resubscribed after a reconnect and
\* are held under the ids 2 and 3
C12_Witness ==
    /\ listen.pc = "recv"
    /\ reconnects = 1
    /\ DOMAIN subscriptions = {2, 3}
    /\ subscriptions[2] = [type |-> "logs", target |-> "programs", callback |-> "h1"]
    /\ subscriptions[3] = [type |-> "account", target |-> "address", callback |-> "h2"]

(***************************************************************************)
(* Properties of WebSocketManager: dispatch and unsubscribe                *)
(***************************************************************************)
\* C13: a notification that carries the id the remote side assigned to an active
\* subscription is handed to the handler registered by that subscription.
C13_DispatchToOwner ==
    [][(listen.pc = "recv" /\ listen'.pc = "callback" /\ listen'.sid \in Assigned(acks)) =>
          \E id \in DOMAIN acks :
             /\ acks[id] = listen'.sid
             /\ id \in DOMAIN subscriptions
             /\ subscriptions[id].callback = listen'.handler]_vars

\* C14: when the handler awaited for a notification returns or raises, listen() goes back
\* to recv() on the same connection (or, when running was cleared meanwhile, ends by
\* returning): it never ends by raising, and the subscription table, the handler table,
\* the id counter and the reconnect counter are as they were.
C14_HandlerFailureAbsorbed ==
    [][(listen.pc = "callback" /\ listen'.pc # "callback") =>
          /\ listen'.pc = IF ws_running THEN "recv" ELSE "returned"
          /\ ws_running => ws' = ws
          /\ subscriptions' = subscriptions
          /\ ws_callbacks' = ws_callbacks
          /\ subscription_id_counter' = subscription_id_counter
          /\ reconnect_attempts' = reconnect_attempts]_vars

\* a handler has raised, the loop is at recv() again on the open connection and the
\* subscription is still registered
C14_Witness ==
    /\ listen.pc = "recv"
    /\ listen.absorbed
    /\ ws = "open"
    /\ ws_running
    /\ subscriptions # <<>>

\* C15: after unsubscribe(id) with an id of the subscription table, the id is in neither
\* the subscription table nor the handler table, whether the request could be sent or not.
C15_UnsubscribeAlwaysRemoves ==
    (unsubscribed.called /\ unsubscribed.known) => unsubscribed.removed

\* C16: unsubscribe(id) with an id that is not in the subscription table sends nothing
\* and changes neither table, the id counter nor the connection.
C16_UnknownIdNoOp ==
    (unsubscribed.called /\ ~unsubscribed.known) =>
        /\ ~unsubscribed.sent
        /\ ~unsubscribed.raised
        /\ ~unsubscribed.changed

\* unsubscribe was called with an unknown id on a manager that holds a subscription on
\* an open connection, after a reconnect gave the subscriptions new ids
C16_Witness ==
    /\ unsubscribed.called
    /\ ~unsubscribed.known
    /\ ws = "open"
    /\ subscriptions # <<>>
    /\ reconnects = 1
    /\ listen.pc = "recv"

(***************************************************************************)
(* Properties of WebSocketManager: stop()                                  *)
(***************************************************************************)
\* C17: in every state, stop() leaves the manager with no open connection and with
\* running False, and a second stop() leaves every field of the manager as the first
\* one left it.
C17_StopIdempotent ==
    LET once == StopOnce(Manager)
    IN /\ once.ws # "open"
       /\ ~once.running
       /\ StopOnce(once) = once
       /\ StopOnce(StopOnce(once)) = once

\* stop() was called on a manager whose listener sleeps the reconnect backoff with two
\* subscriptions registered
C17_Witness ==
    /\ stopped
    /\ listen.pc = "backoff"
    /\ ws = "closed"
    /\ ~ws_running
    /\ Cardinality(DOMAIN subscriptions) = 2

\* C18: after stop() no connection is opened: the connection of a stopped manager stays
\* closed until subscribe() or listen() is called again.
C18_NoConnectionAfterStop ==
    [][(stopped /\ stopped') => ~(ws' = "open" /\ ws # "open")]_vars

(***************************************************************************)
(* Properties of DEXMonitor: lifecycle                                     *)
(***************************************************************************)
\* C21: whatever number of times stop() was called, on a monitor started or not, the
\* active-monitors gauge is not below zero, and a monitor that is not running leaves it
\* at zero, as a single stop() after a single start() does.
C21_StopIdempotent ==
    /\ active_monitors >= 0
    /\ ~running => active_monitors = 0

(***************************************************************************)
(* Properties of DEXMonitor: the polling path as the baseline, under       *)
(* SpecFallback                                                            *)
(***************************************************************************)
\* C22: the end of the push path (the subscription cannot be established, listen() ends)
\* leaves the monitor running and the polling loop where it is, and from then on, as long
\* as the monitor runs, the polling loop goes on starting scan cycles and ending them.
C22_PollingIsBaseline ==
    /\ [][(push'.pc = "failed" /\ push.pc # "failed") =>
             /\ running'
             /\ poll' = poll
             /\ discovered_pairs' = discovered_pairs
             /\ seen_signatures' = seen_signatures]_vars
    /\ [](push.pc = "failed" =>
             /\ []<>(~running \/ poll.pc = "get_sigs")
             /\ []<>(~running \/ poll.pc = "sleep"))

\* the push path has ended, the monitor runs and the polling path has stored a pair and
\* is announcing it
C22_Witness ==
    /\ push.pc = "failed"
    /\ running
    /\ poll.pc = "notify"
    /\ Len(discovered_pairs) = 1

\* C23: a provider call that raises inside a scan cycle leaves the polling loop alive (the
\* cycle goes on to its sleep), and while the monitor runs a new scan cycle is started
\* afterwards.
C23_ProviderErrorAbsorbed ==
    /\ [][(poll'.error /\ ~poll.error) => poll'.pc \in {"get_sigs", "sleep"}]_vars
    /\ [](poll.error => <>(~running \/ (poll.pc = "get_sigs" /\ ~poll.error)))

\* get_transaction has raised for sigA, the scan cycle has ended and the loop sleeps
\* until the next cycle
C23_Witness ==
    /\ running
    /\ poll.pc = "sleep"
    /\ poll.error
    /\ fetched = ("sigA" :> 1)
    /\ discovered_pairs = <<>>

(***************************************************************************)
(* Properties of DEXMonitor: what callers and observers may do             *)
(***************************************************************************)
\* C24: the store changes only by a step of the monitor's own tasks (an insertion by the
\* polling or the push path, a sweep): nothing a caller does with a list returned by
\* get_active_pairs(), or with a pair in it, alters the store.
C24_SnapshotNotAliased ==
    [][(poll' = poll /\ push' = push /\ sweeps' = sweeps) =>
          discovered_pairs' = discovered_pairs]_vars

\* the steps by which each path fetches, recognises and stores
PollDiscovers == PollCycle \/ PollSignatures \/ PollTransaction
PushDiscovers == PushEvent \/ PushTransaction

\* C25: while an observer invoked by a path has not returned, that path can still take a
\* discovery step (start a cycle, take a notification, receive the answer of a provider
\* call).
C25_SlowObserverDoesNotBlock ==
    /\ poll.pc = "notify" => ENABLED PollDiscovers
    /\ push.pc = "notify" => ENABLED PushDiscovers

(***************************************************************************)
(* Properties of DEXMonitor: age and re-discovery, under Spec              *)
(***************************************************************************)
\* the age of the stored pair is above the maximum and not above twice the maximum
Stale(pair) ==
    /\ now - pair.created_at > max_token_age_minutes
    /\ now - pair.created_at <= 2 * max_token_age_minutes

\* C26: a stored pair whose age is above the maximum and not above twice the maximum is
\* not in the result of get_active_pairs(); no step removes it or replaces it by another
\* pair of its token, and no announcement of another pair of its token begins (the first
\* observer is not invoked for one). A pair leaves the store only by a sweep, when its age
\* is above twice the maximum.
C26_StalePairBlocksRediscovery ==
    /\ [](\A i \in 1..Len(discovered_pairs) :
             Stale(discovered_pairs[i]) =>
                \A j \in 1..Len(get_active_pairs(discovered_pairs, now)) :
                   get_active_pairs(discovered_pairs, now)[j] # discovered_pairs[i])
    /\ [][\A i \in 1..Len(discovered_pairs) :
             LET pair == discovered_pairs[i]
                 stays == \E j \in 1..Len(discovered_pairs') : discovered_pairs'[j] = pair
             IN /\ ~stays => /\ now - pair.created_at > 2 * max_token_age_minutes
                             /\ sweeps' # sweeps
                             /\ ~DictHas(discovered_pairs', pair.token_address)
                /\ stays => \A j \in 1..Len(discovered_pairs') :
                               discovered_pairs'[j].token_address = pair.token_address
                                  => discovered_pairs'[j] = pair
                /\ \A key \in DOMAIN calls' \ DOMAIN calls :
                      (key[1] = 1 /\ key[2] = pair.token_address)
                         => key[3] = pair.signature]_vars

\* TKN1 was stored for sigA, grew older than twice the maximum and was swept; the same
\* token was then recognised in sigB, stored again and announced
C26_Witness ==
    /\ swept = {"sigA"}
    /\ Len(discovered_pairs) = 1
    /\ discovered_pairs[1].token_address = "TKN1"
    /\ discovered_pairs[1].signature = "sigB"
    /\ \E key \in DOMAIN calls : key[2] = "TKN1" /\ key[3] = "sigA"
    /\ \E key \in DOMAIN calls : key[2] = "TKN1" /\ key[3] = "sigB"

\* C27: a pair enters the store only if its age at that moment is within the maximum and
\* its token was not stored, and the first observer is invoked in the same step; a pair
\* refused for its age or for its token changes neither the store nor the invocations,
\* then or later; a pair handled to the end was announced to every observer once.
C27_InsertedIffEligibleAndNew ==
    /\ [][/\ \A j \in 1..Len(discovered_pairs') :
                LET pair == discovered_pairs'[j]
                IN pair \notin Entries =>
                      /\ is_eligible(pair, now, max_token_age_minutes)
                      /\ ~DictHas(discovered_pairs, pair.token_address)
                      /\ callbacks # <<>> =>
                            /\ CallKey(1, pair) \notin DOMAIN calls
                            /\ CallKey(1, pair) \in DOMAIN calls'
          /\ (refused' # refused \/ dropped' # dropped) =>
                /\ discovered_pairs' = discovered_pairs
                /\ calls' = calls
                /\ delivered' = delivered]_vars
    /\ [](\A sig \in refused \cup dropped :
             /\ \A pair \in Entries : pair.signature # sig
             /\ sig \notin DOMAIN delivered
             /\ sig \notin swept
             /\ \A k \in 1..Len(callbacks) : Invocations(k, sig) = 0)
    /\ [](\A sig \in DOMAIN delivered :
             \A k \in 1..Len(callbacks) : Invocations(k, sig) = 1)

\* the pair recognised in sigA was refused for its age; the pair recognised in sigB was
\* stored and announced to both observers
C27_Witness ==
    /\ refused = {"sigA"}
    /\ "sigB" \in DOMAIN delivered
    /\ Len(callbacks) = 2
    /\ \E pair \in Entries : pair.signature = "sigB"

(***************************************************************************)
(* Properties of the subscribe calls, under SpecWSCalls                    *)
(***************************************************************************)
\* the ids that are held: by a subscribe call that has taken one, by the tables
HeldIds ==
    {subscribers[c].id[1] : c \in {x \in Callers : subscribers[x].id # None}}
       \cup DOMAIN subscriptions \cup DOMAIN ws_callbacks

\* C28: ids are issued in strictly increasing order and no id is issued twice: an id that
\* appears (in a subscribe call or in the tables) is not below the counter, which was
\* above every id held before; the counter never goes down; two subscribe calls never
\* hold the same id, whatever their interleaving and whether or not a reconnect
\* has registered the subscriptions again.
C28_IdsIncreaseAndDiffer ==
    /\ [](\A id \in HeldIds : id < subscription_id_counter)
    /\ [](\A c1 \in Callers, c2 \in Callers :
             (c1 # c2 /\ subscribers[c1].id # None /\ subscribers[c2].id # None)
                => subscribers[c1].id # subscribers[c2].id)
    /\ [][/\ subscription_id_counter' >= subscription_id_counter
          /\ \A id \in HeldIds' \ HeldIds :
                /\ id >= subscription_id_counter
                /\ id < subscription_id_counter']_vars

\* both calls were made without a connection and have returned, the call made by 2
\* with the lower id; a reconnect has since registered the subscriptions under new ids
C28_Witness ==
    /\ subscribers[1].pc = "done" /\ subscribers[1].connected
    /\ subscribers[2].pc = "done" /\ subscribers[2].connected
    /\ subscribers[2].id[1] < subscribers[1].id[1]
    /\ reconnects = 1
    /\ listen.pc = "recv"
    /\ DOMAIN subscriptions = {2, 3}

\* the connections that are open: the manager's own, and those it has lost the handle of
LiveConnections == (IF ws = "open" THEN 1 ELSE 0) + orphans

\* C29: at most one connection is open at any time, and no connection is open without
\* being the manager's current handle.
C29_OneLiveConnection ==
    /\ LiveConnections <= 1
    /\ orphans = 0

\* C30: a subscribe call made when the manager has never connected, or when stop() has
\* closed its connection, awaits connect() before it sends; a call that returns an id has registered its handler under that id
\* in both tables; a call that fails has left both tables as they were.
C30_SubscribeConnectsFirst ==
    [][\A c \in Callers :
          LET before == subscribers[c]
              after == subscribers'[c]
          IN /\ (/\ before.pc \in {"idle", "done", "failed"}
                 /\ after.pc \in {"connect", "send"}
                 /\ ws = "none" \/ (ws = "closed" /\ stopped))
                   => after.pc = "connect"
             /\ (before.pc = "send" /\ after.pc = "done") =>
                   /\ before.id[1] \in DOMAIN subscriptions'
                   /\ subscriptions'[before.id[1]].type = before.kind
                   /\ subscriptions'[before.id[1]].callback = before.handler
                   /\ before.id[1] \in DOMAIN ws_callbacks'
                   /\ ws_callbacks'[before.id[1]] = before.handler
             /\ (before.pc \in {"connect", "send"} /\ after.pc = "failed") =>
                   /\ subscriptions' = subscriptions
                   /\ ws_callbacks' = ws_callbacks]_vars

(***************************************************************************)
(* Properties of TokenValidator, under SpecValidator                       *)
(***************************************************************************)
\* the check at position n of the result validate() returned
CheckAt(n) == validation[1].checks[n]

\* C31: the holder-distribution check passes when the share of the top 10 holders is
\* within the threshold, and for a share of 85 percent it has status FAIL and
\* severity "high".
C31_HolderDistribution ==
    validation # None =>
       /\ metrics[1].top_10_holders_percent <= holder_threshold
             => CheckAt(3).status = "pass"
       /\ metrics[1].top_10_holders_percent = 85
             => /\ CheckAt(3).status = "fail"
                /\ CheckAt(3).severity = "high"

\* C32: the liquidity check gives PASS for liquidity of at least 1000 USD, WARNING for
\* positive liquidity below 1000 USD (500 USD), FAIL for no liquidity.
C32_LiquidityThreeWay ==
    validation # None =>
       /\ metrics[1].liquidity_usd >= 1000 => CheckAt(5).status = "pass"
       /\ (metrics[1].liquidity_usd > 0 /\ metrics[1].liquidity_usd < 1000)
             => CheckAt(5).status = "warning"
       /\ metrics[1].liquidity_usd = 0 => CheckAt(5).status = "fail"

\* the number of checks of the result with the status
CountStatus(status) ==
    Cardinality({n \in 1..Len(validation[1].checks) : CheckAt(n).status = status})

\* C33: the overall status is FAIL exactly when a check has status FAIL, otherwise
\* WARNING when a check has status WARNING, otherwise PASS; is_safe() holds exactly for
\* PASS and WARNING; passed_checks and failed_checks count the checks with status
\* PASS and FAIL.
C33_OverallStatus ==
    validation # None =>
       LET r == validation[1]
       IN /\ Len(r.checks) = 8
          /\ r.overall_status = "fail" <=> CountStatus("fail") > 0
          /\ r.overall_status = "fail" <=> r.failed_checks > 0
          /\ CountStatus("fail") = 0 =>
                r.overall_status = (IF CountStatus("warning") > 0 THEN "warning" ELSE "pass")
          /\ is_safe(r) <=> CountStatus("fail") = 0
          /\ is_safe(r) <=> r.overall_status \in {"pass", "warning"}
          /\ r.passed_checks = CountStatus("pass")
          /\ r.failed_checks = CountStatus("fail")

\* a result with warnings and no failed check: status WARNING, safe
C33_Witness ==
    /\ validation # None
    /\ validation[1].overall_status = "warning"
    /\ validation[1].failed_checks = 0
    /\ validation[1].passed_checks = 5
    /\ Len(validation[1].warnings) = 2

(***************************************************************************)
(* Properties of DEXMonitor: the seen set                                  *)
(***************************************************************************)
\* C34: a transaction id is in the seen set while its transaction is being fetched, on
\* both paths; an id whose fetch raised or gave no result stays in the seen set, was
\* fetched once and is not being fetched again, and no pair was derived from it.
C34_SeenBeforeFetch ==
    /\ poll.pc = "get_tx" => poll.sig \in seen_signatures
    /\ push.pc = "get_tx" => push.sig \in seen_signatures
    /\ \A sig \in unanswered :
          /\ sig \in seen_signatures
          /\ fetched[sig] = 1
          /\ ~(poll.pc = "get_tx" /\ poll.sig = sig)
          /\ ~(push.pc = "get_tx" /\ push.sig = sig)
          /\ \A pair \in Entries : pair.signature # sig
          /\ sig \notin DOMAIN delivered \cup dropped \cup refused \cup swept
          /\ \A k \in 1..Len(callbacks) : Invocations(k, sig) = 0

\* the fetch of sigA failed on the push path; the polling path was then answered
\* <<sigA, sigB>>, passed over sigA and is fetching sigB
C34_Witness ==
    /\ unanswered = {"sigA"}
    /\ push.pc = "wait"
    /\ poll.pc = "get_tx" /\ poll.sigs = <<"sigA", "sigB">> /\ poll.i = 2
    /\ fetched = ("sigA" :> 1) @@ ("sigB" :> 1)

\* C35: the seen set only grows: every transaction id in it is in it after every step of
\* the monitor (a scan cycle, a push event, a sweep, start(), stop()).
C35_SeenSetOnlyGrows ==
    [][seen_signatures \subseteq seen_signatures']_vars

\* the monitor was stopped; the pair of sigA was swept, sigA is in the seen set
C35_Witness ==
    /\ ~running
    /\ stopped
    /\ swept = {"sigA"}
    /\ seen_signatures = {"sigA", "sigB"}
    /\ unanswered = {"sigB"}

(***************************************************************************)
(* Properties of a DEXMonitor started more than once, under SpecLoops      *)
(***************************************************************************)
\* the tasks of the list that found the flag up since the last start() that created
\* tasks, and so go on beside each other
Going(loops) ==
    {i \in 1..Len(loops) : loops[i].pc \in {"running", "sleep"} /\ loops[i].epoch = Len(loops)}

\* C36: at most one polling loop and at most one sweep loop go on at any time, for any
\* sequence of start() and stop(); start() on a running monitor creates no task.
C36_OneLoopOfEachKind ==
    /\ [](Cardinality(Going(pollers)) <= 1)
    /\ [](Cardinality(Going(sweepers)) <= 1)
    /\ [][running => (pollers' = pollers \/ Len(pollers') = Len(pollers))]_vars

(***************************************************************************)
(* C37: the connection gauge                                               *)
(***************************************************************************)
\* C37: in every reachable state the gauge websocket_connections equals the number of
\* connections the manager holds open, 0 or 1, and is never negative, whatever the
\* sequence of subscribe (connect), listen with its reconnects and its final teardown,
\* and stop. The equality is stated for the states in which the manager's handle is
\* absent or open; a handle whose connection is gone is asked only for a gauge that is
\* not negative.
C37_GaugeCountsConnections ==
    /\ websocket_connections >= 0
    /\ ws # "closed" => websocket_connections = LiveConnections

(***************************************************************************)
(* C38: the subscription table and the handler table                       *)
(***************************************************************************)
\* C38: in every state between two awaits of the manager, self.subscriptions and
\* self.callbacks have the same ids, and under each id self.callbacks holds the handler
\* of the subscription record: across subscribe, unsubscribe, the resubscription after a
\* reconnect, and the send failures inside them.
C38_TablesInStep ==
    /\ DOMAIN subscriptions = DOMAIN ws_callbacks
    /\ \A id \in DOMAIN subscriptions : ws_callbacks[id] = subscriptions[id].callback

\* an unsubscribe whose send failed has left its subscription in both tables, and a
\* resubscription has re-registered a part of the table before one of its sends failed
C38_Witness ==
    /\ unsubscribed.called
    /\ unsubscribed.raised
    /\ listen.pc = "raised"
    /\ listen.error = "subscribe"
    /\ subscriptions # <<>>
    /\ 0 \notin DOMAIN subscriptions

(***************************************************************************)
(* C39: the reconnect counter within one run of listen()                   *)
(***************************************************************************)
\* C39: within one run of listen() on a manager that has not listened before, every
\* connect that succeeds resets the reconnect counter and a connect that fails during
\* a reconnect ends the run: the counter never exceeds 1, every backoff wait is 2^1,
\* and the branch taken when the counter has reached _max_reconnect_attempts is never
\* taken.
C39_CounterAtMostOne ==
    /\ reconnect_attempts <= 1
    /\ listen.pc = "backoff" => (reconnect_attempts = 1 /\ listen.wait = 2 ^ 1)
    /\ ~listen.exhausted

\* the run waits for its third reconnect attempt, the two before it have connected
C39_Witness ==
    /\ reconnects = 2
    /\ listen.pc = "backoff"
    /\ listen.wait = 2
    /\ reconnect_attempts = 1

(***************************************************************************)
(* C40: MoonScanner processes a token at most once                         *)
(***************************************************************************)
\* C40: _on_new_pair records the token address before any work and returns at once for
\* a recorded token: for every token, fetch_metrics and _send_alerts are called at most
\* once by the observer, however often the monitor announces the token and also when the
\* first processing raised; a token that is being or has been processed is recorded.
C40_ProcessedAtMostOnce ==
    /\ \A token \in Tokens : metrics_fetched[token] <= 1 /\ alerts_sent[token] <= 1
    /\ \A token \in Tokens : metrics_fetched[token] >= 1 => token \in processed_tokens
    /\ \A a \in Announcers : handling[a].pc # "idle" => handling[a].token \in processed_tokens

\* a token whose processing raised has been announced again and was skipped, and alerts
\* have been sent for another
C40_Witness ==
    \E failed \in Tokens, alerted \in Tokens :
       /\ failed \in failed_tokens
       /\ failed \in skipped_tokens
       /\ metrics_fetched[failed] = 1
       /\ alerts_sent[failed] = 0
       /\ alerts_sent[alerted] = 1
       /\ alerted \in skipped_tokens

====
